---- MODULE Spec2Model ----
(***************************************************************************)
(* A model of the MD3 decoder (md3view/src/md3.rs, read_md3 and its nested *)
(* readers) and of the animation packer (MD3Surface::make_animation).      *)
(*                                                                         *)
(* The decoder is a state machine over a seekable byte stream: one action  *)
(* per protocol step of read_md3 / read_surface.  The stream's content is  *)
(* the file image described by `input` (header fields, surface headers and *)
(* a position-dependent filler for every other byte), cut at `flen` bytes. *)
(***************************************************************************)
EXTENDS Integers, Sequences, FiniteSets, TLC

VARIABLES
    input,      \* description of the file image behind the stream
    flen,       \* length of the stream in bytes
    pos,        \* stream position (bytes from the start)
    pc,         \* protocol step read_md3 is about to execute
    model,      \* read_md3's local `model`
    hdr,        \* read_md3's locals: counts and absolute offsets
    surface,    \* read_surface's local `surface`
    soff,       \* read_surface's locals: offset_ref, counts, offsets
    ret,        \* what read_md3 returned (kind "none" while it runs)
    overflow_checks, \* build profile: "unset" until an overflow makes it matter
    hiRead,     \* history: one past the highest byte position read so far
    touched,    \* history: the byte ranges read so far, <<first, one past last>>
    log,        \* history: per finished surface, its base and final position
    reopened,   \* history: "no", or how the stream was derived from a decoded one
    prev,       \* history: outcome of the call on the original stream
    surf,       \* make_animation's `self`: the surface to pack
    width,      \* make_animation's `width`: <<>> is None, <<w>> is Some(w)
    animation,  \* what make_animation returned (kind "none" before the call)
    target_endian, \* byte order of the build target ("little" or "big")
    grid,       \* make_animation's rows_per_frame, pixels_per_frame and height
    outline,    \* what make_animation returned, its data held by description
    calls,      \* the earlier calls of make_animation: width and Animation
    par,        \* the per-frame tasks of make_animation's parallel iterator
    neg,        \* Texture::try_from_md3: its locals, attempts and result
    text,       \* String::from_utf8_stop: its argument and what it returned
    pix,        \* MD3FrameVertex::to_pixel: the vertex and what it returned
    app         \* the viewer's App: what the file-dialog handler and the
                \* frame bar set, and what the tag drawing looks up

(***************************************************************************)
(* Program constants.                                                      *)
(***************************************************************************)
MD3_ID == <<73, 68, 80, 51>>          \* b"IDP3"
MD3_VERSION == 15
MD3NameLen == 64
FrameNameLen == 16
IntLen == 4
ShortLen == 2

(***************************************************************************)
(* Bounds of the model.                                                    *)
(***************************************************************************)
MaxFrames == 2
MaxTags == 1
MaxSurfs == 2
MaxVerts == 2
MaxTris == 2
MaxShaders == 1

Max(a, b) == IF a >= b THEN a ELSE b
Min(a, b) == IF a <= b THEN a ELSE b

(***************************************************************************)
(* Little-endian conversions.  A stored integer is a tuple of bytes, least *)
(* significant first.  Values of u32 fields are kept below 2^31 by the     *)
(* inputs (TLC's integers are 32-bit signed).                      *)
(***************************************************************************)
u32_from_le_bytes(b) == b[1] + 256 * b[2] + 65536 * b[3] + 16777216 * b[4]

i32_from_le_bytes(b) ==
    IF b[4] >= 128
    THEN b[1] + 256 * b[2] + 65536 * b[3] + 16777216 * (b[4] - 256)
    ELSE b[1] + 256 * b[2] + 65536 * b[3] + 16777216 * b[4]

\* f32::from_le_bytes: the value is carried as its 32-bit pattern (signed).
f32_from_le_bytes(b) == i32_from_le_bytes(b)

u16_from_le_bytes(b) == b[1] + 256 * b[2]

i16_from_le_bytes(b) ==
    IF b[2] >= 128 THEN b[1] + 256 * (b[2] - 256) ELSE b[1] + 256 * b[2]

(***************************************************************************)
(* The u32 product `num_tags * num_frames`, computed on byte limbs so that *)
(* the full 64-bit product is available.                                   *)
(***************************************************************************)
Limbs4(n) == <<n % 256, (n \div 256) % 256, (n \div 65536) % 256,
               (n \div 16777216) % 256>>

Column(A, B, k) ==
    LET Term(i) == IF k - i >= 0 /\ k - i <= 3 THEN A[i + 1] * B[k - i + 1] ELSE 0
    IN  Term(0) + Term(1) + Term(2) + Term(3)

RECURSIVE CarryIn(_, _, _)
CarryIn(A, B, k) ==
    IF k = 0 THEN 0
    ELSE (Column(A, B, k - 1) + CarryIn(A, B, k - 1)) \div 256

\* The eight little-endian bytes of the mathematical product a * b.
Product64(a, b) ==
    LET A == Limbs4(a)
        B == Limbs4(b)
    IN  [k \in 1..8 |-> (Column(A, B, k - 1) + CarryIn(A, B, k - 1)) % 256]

MulOverflowsU32(a, b) ==
    LET p == Product64(a, b) IN \E k \in 5..8 : p[k] # 0

WrappingMulU32(a, b) ==
    LET p == Product64(a, b) IN u32_from_le_bytes(<<p[1], p[2], p[3], p[4]>>)

(***************************************************************************)
(* The file image.  `d` gives the header fields and, for each surface block *)
(* written into the image, the position `at` where its header is written    *)
(* and the header's fields.  Every byte outside the headers' integer fields *)
(* is Fill(position).  The bytes at the positions in d.patch are written    *)
(* differently: each is the complement of what the image has otherwise.     *)
(***************************************************************************)
Fill(p) == (p * 7 + 3) % 128

Le(n, i) ==
    CASE i = 0 -> n % 256
      [] i = 1 -> (n \div 256) % 256
      [] i = 2 -> (n \div 65536) % 256
      [] i = 3 -> (n \div 16777216) % 256

HeaderByte(d, p) ==
    CASE p < 4 -> d.id[p + 1]
      [] p >= 4 /\ p < 8 -> Le(d.version, p - 4)
      [] p >= 8 /\ p < 72 -> Fill(p)                \* name
      [] p >= 72 /\ p < 76 -> d.flags[p - 71]       \* flags (never read)
      [] p >= 76 /\ p < 80 -> Le(d.nf, p - 76)
      [] p >= 80 /\ p < 84 -> Le(d.nt, p - 80)
      [] p >= 84 /\ p < 88 -> Le(d.ns, p - 84)
      [] p >= 88 /\ p < 92 -> Fill(p)               \* skin count (never read)
      [] p >= 92 /\ p < 96 -> Le(d.offF, p - 92)
      [] p >= 96 /\ p < 100 -> Le(d.offT, p - 96)
      [] p >= 100 /\ p < 104 -> Le(d.offS, p - 100)
      [] p >= 104 -> Le(d.offE, p - 104)

SurfByte(s, q, p) ==
    CASE q < 4 -> s.id[q + 1]
      [] q >= 4 /\ q < 72 -> Fill(p)                \* name, flags
      [] q >= 72 /\ q < 76 -> Le(s.nf, q - 72)
      [] q >= 76 /\ q < 80 -> Le(s.nsh, q - 76)
      [] q >= 80 /\ q < 84 -> Le(s.nv, q - 80)
      [] q >= 84 /\ q < 88 -> Le(s.ntri, q - 84)
      [] q >= 88 /\ q < 92 -> Le(s.oTri, q - 88)
      [] q >= 92 /\ q < 96 -> Le(s.oSh, q - 92)
      [] q >= 96 /\ q < 100 -> Le(s.oUv, q - 96)
      [] q >= 100 /\ q < 104 -> Le(s.oV, q - 100)
      [] q >= 104 -> Le(s.oE, q - 104)

HeaderSize == 108

ImageByte(d, p) ==
    IF p < HeaderSize THEN HeaderByte(d, p)
    ELSE LET hit == {k \in 1..Len(d.surfs) :
                        p >= d.surfs[k].at /\ p < d.surfs[k].at + HeaderSize}
         IN  IF hit = {} THEN Fill(p)
             ELSE LET k == CHOOSE j \in hit : \A i \in hit : j <= i
                  IN  SurfByte(d.surfs[k], p - d.surfs[k].at, p)

Complement(b) == 255 - b

ByteAt(d, p) ==
    IF p \in d.patch THEN Complement(ImageByte(d, p)) ELSE ImageByte(d, p)

\* The stream's content as a byte sequence (position p is element p + 1).
File == [i \in 1..flen |-> ByteAt(input, i - 1)]

(***************************************************************************)
(* The stream: Read::read_exact and Seek::seek on a file.  A read of n     *)
(* bytes at position p succeeds iff the n bytes lie within the stream; a   *)
(* seek to any position succeeds, also past the end.                       *)
(***************************************************************************)
Bytes(p, n) == [i \in 1..n |-> ByteAt(input, p + i - 1)]

Failed == [ok |-> FALSE, val |-> <<>>, pos |-> 0]

\* (variant: a short read counts as a read)
read_some(p, n) ==
    IF p < flen
    THEN [ok |-> TRUE, val |-> Bytes(p, n), pos |-> p + n]
    ELSE Failed

read_exact(p, n) ==
    IF p + n <= flen
    THEN [ok |-> TRUE, val |-> Bytes(p, n), pos |-> p + n]
    ELSE Failed

\* The result of a read followed by further reads: v, then what `rest` read.
Prepend(v, rest) ==
    IF ~rest.ok THEN Failed
    ELSE [ok |-> TRUE, val |-> <<v>> \o rest.val, pos |-> rest.pos]

\* The result r with its value as a one-element tuple.
Nest(r) == IF ~r.ok THEN Failed ELSE [ok |-> TRUE, val |-> <<r.val>>, pos |-> r.pos]

\* Successive read_exact calls of the given sizes, stopping at the first
\* failure (`.or(Err(EOF))?`); val is the tuple of buffers read.
RECURSIVE ReadFields(_, _)
FieldsAfter(r, sizes) ==
    IF ~r.ok THEN Failed ELSE Prepend(r.val, ReadFields(r.pos, sizes))

ReadFields(p, sizes) ==
    IF sizes = <<>> THEN [ok |-> TRUE, val |-> <<>>, pos |-> p]
    ELSE FieldsAfter(read_exact(p, Head(sizes)), Tail(sizes))

\* A record reader's result: the record `v` built from the fields r read.
Record(r, v) == IF ~r.ok THEN Failed ELSE [ok |-> TRUE, val |-> v, pos |-> r.pos]

FrameOf(b) ==
    [min |-> <<f32_from_le_bytes(b[1]), f32_from_le_bytes(b[2]),
               f32_from_le_bytes(b[3])>>,
     max |-> <<f32_from_le_bytes(b[4]), f32_from_le_bytes(b[5]),
               f32_from_le_bytes(b[6])>>,
     origin |-> <<f32_from_le_bytes(b[7]), f32_from_le_bytes(b[8]),
                  f32_from_le_bytes(b[9])>>,
     radius |-> f32_from_le_bytes(b[10]),
     name |-> b[11]]

FrameFrom(r) == IF r.ok THEN Record(r, FrameOf(r.val)) ELSE Failed

read_frame(p) ==
    FrameFrom(ReadFields(p, <<IntLen, IntLen, IntLen, IntLen, IntLen, IntLen,
                              IntLen, IntLen, IntLen, IntLen, FrameNameLen>>))

TagOf(b) ==
    [name |-> b[1],
     origin |-> <<f32_from_le_bytes(b[2]), f32_from_le_bytes(b[3]),
                  f32_from_le_bytes(b[4])>>,
     axes |-> <<<<f32_from_le_bytes(b[5]), f32_from_le_bytes(b[6]),
                  f32_from_le_bytes(b[7])>>,
                <<f32_from_le_bytes(b[8]), f32_from_le_bytes(b[9]),
                  f32_from_le_bytes(b[10])>>,
                <<f32_from_le_bytes(b[11]), f32_from_le_bytes(b[12]),
                  f32_from_le_bytes(b[13])>>>>]

TagFrom(r) == IF r.ok THEN Record(r, TagOf(r.val)) ELSE Failed

read_tag(p) ==
    TagFrom(ReadFields(p, <<MD3NameLen, IntLen, IntLen, IntLen, IntLen, IntLen,
                            IntLen, IntLen, IntLen, IntLen, IntLen, IntLen,
                            IntLen>>))

ShaderOf(b) == [name |-> b[1], index |-> u32_from_le_bytes(b[2])]

ShaderFrom(r) == IF r.ok THEN Record(r, ShaderOf(r.val)) ELSE Failed

read_shader(p) == ShaderFrom(ReadFields(p, <<MD3NameLen, IntLen>>))

\* (variant: the indices are kept in file order)
KeepOrder(t) == t

\* The winding swap of read_triangle: first and third index exchanged.
SwapEnds(t) == <<t[3], t[2], t[1]>>

TriangleOf(b) ==
    SwapEnds(<<u32_from_le_bytes(b[1]), u32_from_le_bytes(b[2]),
               u32_from_le_bytes(b[3])>>)

TriangleFrom(r) == IF r.ok THEN Record(r, TriangleOf(r.val)) ELSE Failed

read_triangle(p) == TriangleFrom(ReadFields(p, <<IntLen, IntLen, IntLen>>))

TexCoordOf(b) == <<f32_from_le_bytes(b[1]), f32_from_le_bytes(b[2])>>

TexCoordFrom(r) == IF r.ok THEN Record(r, TexCoordOf(r.val)) ELSE Failed

read_texcoord(p) == TexCoordFrom(ReadFields(p, <<IntLen, IntLen>>))

VertexOf(b) ==
    [x |-> i16_from_le_bytes(b[1]), y |-> i16_from_le_bytes(b[2]),
     z |-> i16_from_le_bytes(b[3]), n |-> u16_from_le_bytes(b[4])]

VertexFrom(r) == IF r.ok THEN Record(r, VertexOf(r.val)) ELSE Failed

read_vertex(p) ==
    VertexFrom(ReadFields(p, <<ShortLen, ShortLen, ShortLen, ShortLen>>))

ReadRecord(kind, p) ==
    CASE kind = "frame" -> read_frame(p)
      [] kind = "tag" -> read_tag(p)
      [] kind = "shader" -> read_shader(p)
      [] kind = "triangle" -> read_triangle(p)
      [] kind = "texcoord" -> read_texcoord(p)
      [] kind = "vertex" -> read_vertex(p)

\* (0..n).map(|_| read_x(data)).collect::<MD3Result<Vec<_>>>(): records are
\* read one after the other and the first failure ends the loop.
RECURSIVE ReadMany(_, _, _)
ManyAfter(kind, r, n) ==
    IF ~r.ok THEN Failed ELSE Prepend(r.val, ReadMany(kind, r.pos, n))

ReadMany(kind, p, n) ==
    IF n = 0 THEN [ok |-> TRUE, val |-> <<>>, pos |-> p]
    ELSE ManyAfter(kind, ReadRecord(kind, p), n - 1)

(***************************************************************************)
(* read_md3 and read_surface, one action per protocol step.                *)
(***************************************************************************)
Zeros(n) == [i \in 1..n |-> 0]

\* Bytes one record of each kind takes in the stream.
FrameSize == 10 * IntLen + FrameNameLen
TagSize == MD3NameLen + 12 * IntLen
ShaderSize == MD3NameLen + IntLen
TriangleSize == 3 * IntLen
TexCoordSize == 2 * IntLen
VertexSize == 4 * ShortLen

NewModel == [version |-> MD3_VERSION, name |-> Zeros(MD3NameLen), num_tags |-> 0,
             frames |-> <<>>, tags |-> <<>>, surfaces |-> <<>>]

NewSurface == [name |-> Zeros(MD3NameLen), num_verts |-> 0, num_frames |-> 0,
               shaders |-> <<>>, triangles |-> <<>>, texcoords |-> <<>>,
               vertices |-> <<>>]

NoHdr == [num_frames |-> 0, num_tags |-> 0, num_surfs |-> 0, offset_frames |-> 0,
          offset_tags |-> 0, offset_surfaces |-> 0, offset_end |-> 0]

NoSoff == [offset_ref |-> 0, num_shaders |-> 0, num_tris |-> 0,
           offset_triangles |-> 0, offset_shaders |-> 0, offset_uvs |-> 0,
           offset_verts |-> 0, offset_end |-> 0, seeks |-> <<>>]

\* MD3Result<MD3Model>: `val` is the error's payload (a tuple), `model` holds
\* the returned model, if one is returned.
Running == [kind |-> "none", val |-> <<>>, model |-> <<>>]
Ok(m) == [kind |-> "Ok", val |-> <<>>, model |-> <<m>>]
WrongId(buf) == [kind |-> "WrongId", val |-> buf, model |-> <<>>]
UnsupportedVersion(v) == [kind |-> "UnsupportedVersion", val |-> <<v>>, model |-> <<>>]
EOF == [kind |-> "EOF", val |-> <<>>, model |-> <<>>]
AfterEnd(p) == [kind |-> "AfterEnd", val |-> <<p>>, model |-> <<>>]
\* a panic: the call does not return
Panic == [kind |-> "Panic", val |-> <<>>, model |-> <<>>]

ErrorKinds == {"WrongId", "UnsupportedVersion", "EOF", "AfterEnd"}

\* (variant: only the first byte of the identifier is compared)
IdMatchesFirstByte(buf) == buf[1] = MD3_ID[1]

\* `int_buf != MD3_ID`
IdMatches(buf) == buf = MD3_ID

\* (variant: older versions are accepted too)
VersionAtMost(v) == v <= MD3_VERSION

\* `version != MD3_VERSION`
VersionSupported(v) == v = MD3_VERSION

\* (variant: a position equal to the end is rejected as well)
AtOrPastEnd(p, end) == p >= end

\* `pos > offset_end`
PastEnd(p, end) == p > end

\* (variant: the vertices of one frame only)
VertexRecordsOneFrame(num_verts, num_frames) == num_verts

\* `surface.num_verts * surface.num_frames` (usize)
VertexRecords(num_verts, num_frames) == num_verts * num_frames

\* One past the highest byte read, after reads that ended at position q.
Seen(q) == Max(hiRead, q)

\* (variant: what was decoded so far is handed back with the error)
ReturnPartial(r) ==
    /\ ret' = [r EXCEPT !.model = <<model>>]
    /\ pc' = "done"
    /\ UNCHANGED <<pos, model, hdr, surface, soff, hiRead, log>>

\* `return Err(e)` / `?`: the call ends with e; the locals are dropped.
Return(r) ==
    /\ ret' = r
    /\ pc' = "done"
    /\ UNCHANGED <<pos, model, hdr, surface, soff, hiRead, log>>

\* The step read through position q without failing and goes on at `next`.
Advance(q, next) ==
    /\ pos' = q
    /\ hiRead' = Seen(q)
    /\ pc' = next
    /\ ret' = ret

packer == <<surf, width, animation, target_endian, grid, outline, calls,
            par, neg>>

decoder == <<input, flen, pos, pc, model, hdr, surface, soff, ret, hiRead,
             touched, log, reopened, prev>>

\* what no step of make_animation or try_from_md3 touches
outside == <<decoder, text, pix, app>>

history == <<input, flen, reopened, prev, packer, text, pix, app>>

\* (variant: the reserved bytes are not skipped)
NoSeek(p, n) == p

\* `data.seek(SeekFrom::Current(4))`: the position moves on, nothing is read.
seek_current(p, n) == p + n

\* History: the range a read_exact of n bytes at p takes from the stream
\* (what is there of it, if the stream ends before).
Touch(p, n) ==
    IF n > 0 /\ p < flen THEN {<<p, Min(p + n, flen)>>} ELSE {}

\* The range n records of `size` bytes take, read one after the other from p.
TouchMany(p, n, size) ==
    IF n = 0 \/ p >= flen THEN {}
    ELSE IF n >= flen THEN {<<p, flen>>}
    ELSE {<<p, Min(p + n * size, flen)>>}

\* The ranges of a name, 4 bytes skipped, and two runs of integers.
TouchSecond(c, first, second) ==
    Touch(c, first * IntLen)
        \cup Touch(seek_current(c + first * IntLen, second[1]), second[2] * IntLen)

TouchFields(p, first, second) ==
    Touch(p, MD3NameLen)
        \cup TouchSecond(seek_current(p + MD3NameLen, IntLen), first, second)

MagicRead(r) ==
    IF ~r.ok THEN Return(EOF)
    ELSE IF ~IdMatches(r.val) THEN Return(WrongId(r.val))
    ELSE Advance(r.pos, "version") /\ UNCHANGED <<model, hdr, surface, soff, log>>

ReadMagic ==
    /\ pc = "magic"
    /\ MagicRead(read_exact(pos, IntLen))
    /\ touched' = touched \cup Touch(pos, IntLen)
    /\ UNCHANGED <<history, overflow_checks>>

VersionRead(r, version) ==
    IF ~r.ok THEN Return(EOF)
    ELSE IF ~VersionSupported(version) THEN Return(UnsupportedVersion(version))
    ELSE Advance(r.pos, "header") /\ UNCHANGED <<model, hdr, surface, soff, log>>

VersionOf(r) == IF r.ok THEN i32_from_le_bytes(r.val) ELSE 0

VersionStep(r) == VersionRead(r, VersionOf(r))

ReadVersion ==
    /\ pc = "version"
    /\ VersionStep(read_exact(pos, IntLen))
    /\ touched' = touched \cup Touch(pos, IntLen)
    /\ UNCHANGED <<history, overflow_checks>>

\* The header after the version: the name, 4 bytes skipped, three counts, 4
\* bytes skipped, four offsets.  r.val = <<name, <<counts>>, <<offsets>>>>.
HeaderOffsets(name, counts) ==
    IF ~counts.ok THEN Failed
    ELSE Prepend(name.val,
           Prepend(counts.val,
             Nest(ReadFields(seek_current(counts.pos, IntLen),
                             <<IntLen, IntLen, IntLen, IntLen>>))))

HeaderCounts(name) ==
    IF ~name.ok THEN Failed
    ELSE HeaderOffsets(name, ReadFields(seek_current(name.pos, IntLen),
                                        <<IntLen, IntLen, IntLen>>))

HeaderRead(r) ==
    IF ~r.ok THEN Return(EOF)
    ELSE /\ model' = [model EXCEPT
                         !.name = r.val[1],
                         !.num_tags = u32_from_le_bytes(r.val[2][2])]
         /\ hdr' = [num_frames |-> u32_from_le_bytes(r.val[2][1]),
                    num_tags |-> u32_from_le_bytes(r.val[2][2]),
                    num_surfs |-> u32_from_le_bytes(r.val[2][3]),
                    offset_frames |-> u32_from_le_bytes(r.val[3][1]),
                    offset_tags |-> u32_from_le_bytes(r.val[3][2]),
                    offset_surfaces |-> u32_from_le_bytes(r.val[3][3]),
                    offset_end |-> u32_from_le_bytes(r.val[3][4])]
         /\ Advance(r.pos, "frames")
         /\ UNCHANGED <<surface, soff, log>>

ReadHeader ==
    /\ pc = "header"
    /\ HeaderRead(HeaderCounts(read_exact(pos, MD3NameLen)))
    /\ touched' = touched \cup TouchFields(pos, 3, <<IntLen, 4>>)
    /\ UNCHANGED <<history, overflow_checks>>

\* A block of records was read: r is the loop's result.
BlockRead(r, next) ==
    /\ pos' = r.pos
    /\ hiRead' = IF r.val = <<>> THEN hiRead ELSE Seen(r.pos)
    /\ pc' = next
    /\ ret' = ret

FramesRead(r) ==
    IF ~r.ok THEN Return(EOF)
    ELSE /\ model' = [model EXCEPT !.frames = r.val]
         /\ BlockRead(r, "tags")
         /\ UNCHANGED <<hdr, surface, soff, log>>

ReadFrames ==
    /\ pc = "frames"
    /\ FramesRead(ReadMany("frame", hdr.offset_frames, hdr.num_frames))
    /\ touched' = touched \cup TouchMany(hdr.offset_frames, hdr.num_frames, FrameSize)
    /\ UNCHANGED <<history, overflow_checks>>

TagsRead(r) ==
    IF ~r.ok THEN Return(EOF)
    ELSE /\ model' = [model EXCEPT !.tags = r.val]
         /\ BlockRead(r, "surfaces")
         /\ UNCHANGED <<hdr, surface, soff, log>>

\* `num_tags * num_frames` in u32: with overflow checks the build panics on
\* overflow, without them the product wraps.
TagsStep(overflows) ==
    \E oc \in (IF overflows /\ overflow_checks = "unset"
               THEN {"on", "off"} ELSE {overflow_checks}) :
        /\ overflow_checks' = oc
        /\ IF overflows /\ oc = "on" THEN Return(Panic) /\ UNCHANGED touched
           ELSE /\ TagsRead(ReadMany("tag", hdr.offset_tags,
                                     WrappingMulU32(hdr.num_tags, hdr.num_frames)))
                /\ touched' = touched \cup
                       TouchMany(hdr.offset_tags,
                                 WrappingMulU32(hdr.num_tags, hdr.num_frames),
                                 TagSize)

ReadTags ==
    /\ pc = "tags"
    /\ TagsStep(MulOverflowsU32(hdr.num_tags, hdr.num_frames))
    /\ UNCHANGED history

NextSurface(done) == IF done < hdr.num_surfs THEN "surf_header" ELSE "end"

SeekSurfaces ==
    /\ pc = "surfaces"
    /\ pos' = hdr.offset_surfaces
    /\ pc' = NextSurface(0)
    /\ UNCHANGED <<model, hdr, surface, soff, ret, hiRead, touched, log>>
    /\ UNCHANGED <<history, overflow_checks>>

\* The surface header after the identifier: the name, 4 bytes skipped, four
\* counts, five offsets.  r.val = <<name, <<counts>>, <<offsets>>>>.
SurfaceOffsets(name, counts) ==
    IF ~counts.ok THEN Failed
    ELSE Prepend(name.val,
           Prepend(counts.val,
             Nest(ReadFields(counts.pos,
                             <<IntLen, IntLen, IntLen, IntLen, IntLen>>))))

SurfaceCounts(name) ==
    IF ~name.ok THEN Failed
    ELSE SurfaceOffsets(name, ReadFields(seek_current(name.pos, IntLen),
                                         <<IntLen, IntLen, IntLen, IntLen>>))

SurfaceFields(offset_ref, r) ==
    IF ~r.ok THEN Return(EOF)
    ELSE /\ surface' = [NewSurface EXCEPT
                          !.name = r.val[1],
                          !.num_frames = u32_from_le_bytes(r.val[2][1]),
                          !.num_verts = u32_from_le_bytes(r.val[2][3])]
         /\ soff' = [offset_ref |-> offset_ref,
                     num_shaders |-> u32_from_le_bytes(r.val[2][2]),
                     num_tris |-> u32_from_le_bytes(r.val[2][4]),
                     offset_triangles |->
                         offset_ref + u32_from_le_bytes(r.val[3][1]),
                     offset_shaders |->
                         offset_ref + u32_from_le_bytes(r.val[3][2]),
                     offset_uvs |->
                         offset_ref + u32_from_le_bytes(r.val[3][3]),
                     offset_verts |->
                         offset_ref + u32_from_le_bytes(r.val[3][4]),
                     offset_end |->
                         offset_ref + u32_from_le_bytes(r.val[3][5]),
                     seeks |-> <<>>]
         /\ Advance(r.pos, "surf_shaders")
         /\ UNCHANGED <<model, hdr, log>>

SurfaceId(offset_ref, id) ==
    IF ~id.ok THEN Return(EOF)
    ELSE IF ~IdMatches(id.val) THEN Return(WrongId(id.val))
    ELSE SurfaceFields(offset_ref,
                       SurfaceCounts(read_exact(id.pos, MD3NameLen)))

\* The identifier was read and is the expected one: the rest of the surface
\* header is read.
IdRead(id) == id.ok /\ IdMatches(id.val)

\* (variant: the position is taken after the identifier was read)
PositionAfterId(p) == p + IntLen

\* `data.stream_position()`, before anything of the surface is read
stream_position(p) == p

SurfaceHeader ==
    /\ pc = "surf_header"
    /\ SurfaceId(stream_position(pos), read_exact(pos, IntLen))
    /\ touched' = touched \cup Touch(pos, IntLen)
                     \cup IF IdRead(read_exact(pos, IntLen))
                          THEN TouchFields(pos + IntLen, 4, <<0, 5>>)
                          ELSE {}
    /\ UNCHANGED <<history, overflow_checks>>

\* A section of read_surface: seek to its offset, read its records.
\* History: soff.seeks lists the sections read and the positions sought.
SectionRead(r, field, target, next) ==
    IF ~r.ok THEN Return(EOF)
    ELSE /\ surface' = [surface EXCEPT ![field] = r.val]
         /\ soff' = [soff EXCEPT
                       !.seeks = Append(@, [section |-> field, target |-> target])]
         /\ BlockRead(r, next)
         /\ UNCHANGED <<model, hdr, log>>

SurfaceShaders ==
    /\ pc = "surf_shaders"
    /\ SectionRead(ReadMany("shader", soff.offset_shaders, soff.num_shaders),
                   "shaders", soff.offset_shaders, "surf_triangles")
    /\ touched' = touched \cup TouchMany(soff.offset_shaders, soff.num_shaders, ShaderSize)
    /\ UNCHANGED <<history, overflow_checks>>

SurfaceTriangles ==
    /\ pc = "surf_triangles"
    /\ SectionRead(ReadMany("triangle", soff.offset_triangles, soff.num_tris),
                   "triangles", soff.offset_triangles, "surf_uvs")
    /\ touched' = touched \cup TouchMany(soff.offset_triangles, soff.num_tris, TriangleSize)
    /\ UNCHANGED <<history, overflow_checks>>

SurfaceUVs ==
    /\ pc = "surf_uvs"
    /\ SectionRead(ReadMany("texcoord", soff.offset_uvs, surface.num_verts),
                   "texcoords", soff.offset_uvs, "surf_vertices")
    /\ touched' = touched \cup TouchMany(soff.offset_uvs, surface.num_verts, TexCoordSize)
    /\ UNCHANGED <<history, overflow_checks>>

SurfaceVertices ==
    /\ pc = "surf_vertices"
    /\ SectionRead(ReadMany("vertex", soff.offset_verts,
                            VertexRecords(surface.num_verts, surface.num_frames)),
                   "vertices", soff.offset_verts, "surf_end")
    /\ touched' = touched \cup
           TouchMany(soff.offset_verts,
                     VertexRecords(surface.num_verts, surface.num_frames),
                     VertexSize)
    /\ UNCHANGED <<history, overflow_checks>>

\* History: one past the highest byte of the surface's sections that hold
\* records (0 if none does).
BlockTop(offset, size, records) ==
    IF records = <<>> THEN 0 ELSE offset + size * Len(records)

SectionsTop ==
    Max(Max(BlockTop(soff.offset_shaders, ShaderSize, surface.shaders),
            BlockTop(soff.offset_triangles, TriangleSize, surface.triangles)),
        Max(BlockTop(soff.offset_uvs, TexCoordSize, surface.texcoords),
            BlockTop(soff.offset_verts, VertexSize, surface.vertices)))

\* (variant: the stream is moved to the surface's declared end)
AtDeclaredEnd(p, offset_end) == offset_end

\* read_surface returns Ok: the stream stays where the last read ended, and
\* the next read_surface starts there.
AfterSurface(p, offset_end) == p

SurfaceEnd ==
    /\ pc = "surf_end"
    /\ IF PastEnd(pos, soff.offset_end) THEN Return(AfterEnd(pos))
       ELSE /\ model' = [model EXCEPT !.surfaces = Append(@, surface)]
            /\ log' = Append(log, [base |-> soff.offset_ref, fin |-> pos,
                                    top |-> SectionsTop, seeks |-> soff.seeks])
            /\ pc' = NextSurface(Len(model.surfaces) + 1)
            /\ pos' = AfterSurface(pos, soff.offset_end)
            /\ UNCHANGED <<hdr, surface, soff, ret, hiRead>>
    /\ UNCHANGED <<history, overflow_checks, touched>>

EndCheck ==
    /\ pc = "end"
    /\ IF PastEnd(pos, hdr.offset_end) THEN Return(AfterEnd(pos))
       ELSE /\ ret' = Ok(model)
            /\ pc' = "done"
            /\ UNCHANGED <<pos, model, hdr, surface, soff, hiRead, log>>
    /\ UNCHANGED <<history, overflow_checks, touched>>

\* A fresh call of read_md3 on a stream positioned at its start.
Call ==
    /\ pos' = 0
    /\ pc' = "magic"
    /\ model' = NewModel
    /\ hdr' = NoHdr
    /\ surface' = NewSurface
    /\ soff' = NoSoff
    /\ ret' = Running
    /\ hiRead' = 0
    /\ touched' = {}
    /\ log' = <<>>

\* The decoded file is cut below the highest byte the decoder read, and
\* read_md3 is called on what is left.
OpenTruncated ==
    /\ pc = "done"
    /\ ret.kind = "Ok"
    /\ reopened = "no"
    /\ \E cut \in 0..(hiRead - 1) : flen' = cut
    /\ reopened' = "truncated"
    /\ prev' = [kind |-> ret.kind, hi |-> hiRead]
    /\ Call
    /\ UNCHANGED <<input, overflow_checks, packer, text, pix, app>>

\* No read so far took the byte at position p from the stream.
Unread(p) == \A t \in touched : p < t[1] \/ p >= t[2]

UnreadPositions == {p \in 0..(flen - 1) : Unread(p)}

\* After read_md3 ended, bytes it never read are written differently (one of
\* them, or all of them), and read_md3 is called on the stream again, in the
\* same build.
OpenAltered ==
    /\ pc = "done"
    /\ reopened = "no"
    /\ \E patch \in {{p} : p \in UnreadPositions} \cup {UnreadPositions} :
          /\ patch # {}
          /\ input' = [input EXCEPT !.patch = patch]
    /\ reopened' = "altered"
    /\ prev' = [kind |-> ret.kind, hi |-> hiRead, ret |-> ret,
                touched |-> touched]
    /\ Call
    /\ UNCHANGED <<flen, overflow_checks, packer, text, pix, app>>

(***************************************************************************)
(* MD3Surface::make_animation.  usize values are held modulo 2^64 by the   *)
(* representative nearest 0: a negative n stands for 2^64 + n, so          *)
(* usize::MAX is -1.  The values the model meets are small or within a few *)
(* units of 2^64.                                                          *)
(***************************************************************************)
UsizeMax == 0 - 1

\* The usize product a * b does not fit 64 bits.
MulOverflowsUsize(a, b) ==
    \/ a < 0 /\ b < 0
    \/ a < 0 /\ b >= 2
    \/ b < 0 /\ a >= 2

\* The usize difference a - b of two small values is negative.
SubOverflowsUsize(a, b) == a < b

\* f32 has a 24-bit significand.  BinadeOf(n, e) is the least e' >= e with
\* n < 2^(24 + e'): the exponent of the unit in the last place of n.
RECURSIVE BinadeOf(_, _)
BinadeOf(n, e) == IF n < 2^24 * 2^e THEN e ELSE BinadeOf(n, e + 1)

\* floor(log2(k)) for k >= 1, counting up from j.
RECURSIVE Log2From(_, _)
Log2From(k, j) == IF k < 2 * 2^j THEN j ELSE Log2From(k, j + 1)

\* num / den rounded to an integer, ties to the even one.
RoundHalfEven(num, den) ==
    (num \div den)
        + (IF \/ 2 * (num % den) > den
              \/ 2 * (num % den) = den /\ (num \div den) % 2 = 1
           THEN 1 ELSE 0)


\* `n as f32` for a usize n: the nearest value with a 24-bit significand,
\* ties to even.
AsF32(n) == RoundHalfEven(n, 2^BinadeOf(n, 0)) * 2^BinadeOf(n, 0)

\* `(a / b).ceil()` for f32 values a >= 1, b >= 1 that are whole numbers: the
\* quotient is rounded to 24 bits (ties to even) before the ceiling is taken.
\*   - from 2^23 on, the rounded quotient is a whole number;
\*   - below, with k = floor(a / b) >= 1 and r = a mod b > 0, the quotient
\*     rounds down to k iff r / b is at most half the spacing 2^(j - 23) of
\*     the f32 values from k on, j = floor(log2(k)) (a tie goes to k, whose
\*     significand is even); otherwise the rounded quotient lies in (k, k+1];
\*   - a quotient in (0, 1) rounds to a value in (0, 1].
CeilOfQuotientF32(a, b) ==
    IF a \div b >= 2^23
    THEN RoundHalfEven(a, b * 2^BinadeOf(a \div b, 0)) * 2^BinadeOf(a \div b, 0)
    ELSE IF a % b = 0 THEN a \div b
    ELSE IF a \div b = 0 THEN 1
    ELSE IF a % b <= b \div 2^(24 - Log2From(a \div b, 0)) THEN a \div b
    ELSE a \div b + 1

\* `(vertices as f32 / width as f32).ceil() as usize`: 0/0 is NaN, which the
\* cast turns into 0; v/0 is +inf, which the cast saturates to usize::MAX.
RowsPerFrame(vertices, w) ==
    IF w = 0 THEN (IF vertices = 0 THEN 0 ELSE UsizeMax)
    ELSE IF vertices = 0 THEN 0
    ELSE CeilOfQuotientF32(AsF32(vertices), AsF32(w))

\* The surface's `vertices` is held by description: its length and a seed;
\* element i (from 1) is VertexPattern(seed, i).  The elements differ from
\* their neighbours and from the zero pixel, have negative coordinates and
\* normals beyond 2^15, and stay within i16 / u16 for every i below 2^31.
VertexPattern(seed, i) ==
    [x |-> (i % 65536) - 32768,
     y |-> i \div 65536,
     z |-> IF seed = 0 THEN 0 - 1 ELSE 32767,
     n |-> 65535 - (i % 7)]

\* `self.vertices[i - 1]`
VertexAt(i) == VertexPattern(surf.vertices.seed, i)

\* The 16 bits an i16 is stored in (two's complement).
I16Bits(x) == x % 65536

\* (variant: the normal is widened as a signed value)
AsSigned(n) == IF n >= 32768 THEN n - 65536 ELSE n

\* `x as i32` for an i16: the sign bit fills the upper 16 bits.
i16_as_i32(x) == IF I16Bits(x) >= 32768 THEN I16Bits(x) - 65536 ELSE I16Bits(x)

\* `n as i32` for a u16: zeros fill the upper 16 bits.
u16_as_i32(n) == n

\* MD3FrameVertex::to_pixel
to_pixel(vert) ==
    <<i16_as_i32(vert.x), i16_as_i32(vert.y), i16_as_i32(vert.z),
      u16_as_i32(vert.n)>>

NoPixel == [vert |-> [x |-> 0, y |-> 0, z |-> 0, n |-> 0], kind |-> "none",
            pixel |-> <<>>]

ToPixel ==
    /\ pix.kind = "none"
    /\ pix' = [pix EXCEPT !.kind = "Pixel", !.pixel = to_pixel(pix.vert)]
    /\ UNCHANGED <<decoder, overflow_checks, packer, text, app>>

\* i32::to_ne_bytes: the four bytes of the two's complement form in the
\* target's byte order.
to_ne_bytes(i) ==
    IF target_endian = "little"
    THEN <<i % 256, (i \div 256) % 256, (i \div 65536) % 256,
           (i \div 16777216) % 256>>
    ELSE <<(i \div 16777216) % 256, (i \div 65536) % 256, (i \div 256) % 256,
           i % 256>>

\* `.flatten().flatten()` of one pixel: its 16 bytes.
PixelBytes(px) ==
    to_ne_bytes(px[1]) \o to_ne_bytes(px[2]) \o to_ne_bytes(px[3])
        \o to_ne_bytes(px[4])

ZeroPixel == <<0, 0, 0, 0>>

RECURSIVE Flatten(_)
Flatten(pixels) ==
    IF pixels = <<>> THEN <<>>
    ELSE PixelBytes(Head(pixels)) \o Flatten(Tail(pixels))

Repeat(x, n) == [i \in 1..n |-> x]

\* `.take(n)` of a sequence.
Take(seq, n) == SubSeq(seq, 1, Min(n, Len(seq)))

\* The block of one frame: the frame's slice of the vertices as pixels,
\* chained with zero pixels without end, cut at pixels_per_frame pixels.
FrameBlock(frame, vertices, pixels_per_frame) ==
    LET start == frame * vertices
        end == start + vertices
        slice == [i \in 1..vertices |-> to_pixel(VertexAt(start + i))]
    IN  Flatten(Take(slice \o Repeat(ZeroPixel, pixels_per_frame),
                     pixels_per_frame))

RECURSIVE FrameBlocks(_, _, _, _)
FrameBlocks(frame, frames, vertices, pixels_per_frame) ==
    IF frame >= frames THEN <<>>
    ELSE FrameBlock(frame, vertices, pixels_per_frame)
            \o FrameBlocks(frame + 1, frames, vertices, pixels_per_frame)

\* The single-frame branch: every vertex as a pixel, then extra_count zero
\* pixels.
SingleBlock(extra_count) ==
    Flatten([i \in 1..surf.vertices.len |-> to_pixel(VertexAt(i))]
                \o Repeat(ZeroPixel, extra_count))

NotCalled == [kind |-> "none", vertices |-> 0, frames |-> 0,
              rows_per_frame |-> 0, data |-> <<>>]

\* a panic: the call does not return
Panicked == [kind |-> "Panic", vertices |-> 0, frames |-> 0,
             rows_per_frame |-> 0, data |-> <<>>]

\* The struct returned; `as u32` keeps small values and turns usize::MAX
\* into u32::MAX (held as -1, modulo 2^32).
Animation(vertices, frames, rows_per_frame, data) ==
    [kind |-> "Animation", vertices |-> vertices, frames |-> frames,
     rows_per_frame |-> rows_per_frame, data |-> data]

Channels == 4 * IntLen

\* (variant: the final length assertion is missing)
Unchecked(data, w, height) == TRUE

\* `assert_eq!(data.len(), width * height * channels)`: whether it passes.
\* One of the factors being 0 the product is 0; otherwise the factors here
\* are small.
LengthAsserted(data, w, height) ==
    Len(data) = (IF w = 0 \/ height = 0 THEN 0 ELSE w * height * Channels)

\* From the data of either branch to the return.
Finish(vertices, frames, rows_per_frame, w, height, data) ==
    IF LengthAsserted(data, w, height)
    THEN animation' = Animation(vertices, frames, rows_per_frame, data)
    ELSE animation' = Panicked

\* (variant: only a surface of exactly one frame takes the other branch)
NotOneFrame(frames) == frames # 1

\* `if frames > 1`
SeveralFrames(frames) == frames > 1

\* The two branches, for the build profile `checks`.
Pack(vertices, frames, w, rows_per_frame, pixels_per_frame, height, checks) ==
    IF SeveralFrames(frames)
    THEN Finish(vertices, frames, rows_per_frame, w, height,
                FrameBlocks(0, frames, vertices, pixels_per_frame))
    ELSE IF SubOverflowsUsize(pixels_per_frame, surf.vertices.len)
         THEN \* with checks the subtraction panics; without, extra_count is
              \* nearly 2^64 and collecting that many pixels aborts
              animation' = Panicked
         ELSE Finish(vertices, frames, rows_per_frame, w, height,
                     SingleBlock(pixels_per_frame - surf.vertices.len))

\* `width * rows_per_frame` and `frames * rows_per_frame`
Sized(vertices, frames, w, rows_per_frame, checks) ==
    IF checks = "on" /\ (\/ MulOverflowsUsize(w, rows_per_frame)
                         \/ MulOverflowsUsize(frames, rows_per_frame))
    THEN animation' = Panicked
    ELSE Pack(vertices, frames, w, rows_per_frame, w * rows_per_frame,
              frames * rows_per_frame, checks)

\* (variant: a width of None takes the width of the call before)
UnwrapOrLast(option, default) ==
    IF option # <<>> THEN option[1]
    ELSE IF calls # <<>> /\ calls[Len(calls)].width # <<>>
         THEN calls[Len(calls)].width[1]
         ELSE default

UnwrapOr(option, default) == IF option = <<>> THEN default ELSE option[1]

Packed(vertices, frames, w, checks) ==
    Sized(vertices, frames, w, RowsPerFrame(vertices, w), checks)

MakeAnimation ==
    /\ animation.kind = "none"
    /\ Packed(surf.num_verts, surf.num_frames, UnwrapOr(width, surf.num_verts),
              overflow_checks)
    /\ UNCHANGED <<outside, overflow_checks, surf, width, target_endian, grid,
                   outline, calls, par, neg>>

\* The caller keeps the Animation it was given and calls make_animation of
\* the same surface again, with any width.  (A panic ends the thread: no
\* call follows it.)
CallAgain(widths, most) ==
    /\ animation.kind = "Animation"
    /\ Len(calls) < most
    /\ calls' = Append(calls, [width |-> width, animation |-> animation])
    /\ width' \in widths
    /\ animation' = NotCalled
    /\ UNCHANGED <<outside, overflow_checks, surf, target_endian, grid, outline,
                   par, neg>>

NotMeasured == [kind |-> "none", rows_per_frame |-> 0, pixels_per_frame |-> 0,
                height |-> 0]

\* The head of make_animation alone (its lines up to `height`), for surfaces
\* whose vertex data is too large to be written out: the grid it lays the
\* pixels on.
Measured(frames, w, rows_per_frame) ==
    IF overflow_checks = "on" /\ (\/ MulOverflowsUsize(w, rows_per_frame)
                                  \/ MulOverflowsUsize(frames, rows_per_frame))
    THEN grid' = [NotMeasured EXCEPT !.kind = "Panic"]
    ELSE grid' = [kind |-> "Grid", rows_per_frame |-> rows_per_frame,
                  pixels_per_frame |-> w * rows_per_frame,
                  height |-> frames * rows_per_frame]

Measure ==
    /\ grid.kind = "none"
    /\ Measured(surf.num_frames, UnwrapOr(width, surf.num_verts),
                RowsPerFrame(surf.num_verts, UnwrapOr(width, surf.num_verts)))
    /\ UNCHANGED <<outside, overflow_checks, surf, width, animation,
                   target_endian, outline, calls, par, neg>>

NotArranged == [kind |-> "none", branch |-> "none", pixels |-> 0]

\* The rest of make_animation on the grid, with the data held by
\* description: the branch that built it and its length in pixels; the pixel
\* at an index is PixelAt below.  In the `frames > 1` branch every frame
\* contributes exactly pixels_per_frame pixels (the chain of slice and zero
\* pixels is endless, `take` cuts it); in the other branch the data is every
\* vertex followed by extra_count zero pixels.  The final assertion
\* compares data.len() with width * height * 16; here both sides are divided
\* by 16.
Arranged(frames, w, branch, pixels) ==
    IF pixels = w * grid.height
    THEN outline' = [kind |-> "Animation", branch |-> branch, pixels |-> pixels]
    ELSE outline' = [NotArranged EXCEPT !.kind = "Panic"]

Arrange ==
    /\ grid.kind = "Grid"
    /\ outline.kind = "none"
    /\ IF SeveralFrames(surf.num_frames)
       THEN Arranged(surf.num_frames, UnwrapOr(width, surf.num_verts), "frames",
                     surf.num_frames * grid.pixels_per_frame)
       ELSE IF SubOverflowsUsize(grid.pixels_per_frame, surf.vertices.len)
            THEN outline' = [NotArranged EXCEPT !.kind = "Panic"]
            ELSE Arranged(surf.num_frames, UnwrapOr(width, surf.num_verts),
                          "single",
                          surf.vertices.len
                              + (grid.pixels_per_frame - surf.vertices.len))
    /\ UNCHANGED <<outside, overflow_checks, surf, width, animation,
                   target_endian, grid, calls, par, neg>>

NoTasks == [status |-> <<>>, block |-> <<>>, read |-> <<>>, order |-> <<>>]

\* One task per frame of `(0..frames).into_par_iter()`, none started.
TasksOf(frames) ==
    [status |-> [f \in 0..(frames - 1) |-> "idle"],
     block |-> [f \in 0..(frames - 1) |-> <<>>],
     read |-> [f \in 0..(frames - 1) |-> {}],
     order |-> <<>>]

\* The vertices (indices from 1) the closure of frame `frame` reads: the
\* elements of self.vertices[start..end] that take(pixels_per_frame) lets
\* through.
SliceRead(frame, vertices, pixels_per_frame) ==
    (frame * vertices + 1)..(frame * vertices + Min(vertices, pixels_per_frame))

\* The parallel iterator hands the frames to the thread pool: any idle
\* frame's closure may start at any time, in the `frames > 1` branch.
StartFrame(f) ==
    /\ grid.kind = "Grid"
    /\ surf.num_frames > 1
    /\ animation.kind = "none"
    /\ par.status[f] = "idle"
    /\ par' = [par EXCEPT !.status[f] = "running"]
    /\ UNCHANGED <<outside, overflow_checks, surf, width, animation,
                   target_endian, grid, outline, calls, neg>>

\* A running closure returns its by_slice.
EndFrame(f) ==
    /\ par.status[f] = "running"
    /\ par' = [par EXCEPT
                 !.status[f] = "done",
                 !.block[f] = FrameBlock(f, surf.num_verts, grid.pixels_per_frame),
                 !.read[f] = SliceRead(f, surf.num_verts, grid.pixels_per_frame),
                 !.order = Append(@, f)]
    /\ UNCHANGED <<outside, overflow_checks, surf, width, animation,
                   target_endian, grid, outline, calls, neg>>

\* (variant: the blocks are joined in the order the closures returned)
RECURSIVE InCompletionOrder(_, _)
InCompletionOrder(frame, frames) ==
    IF frame >= frames THEN <<>>
    ELSE par.block[par.order[frame + 1]] \o InCompletionOrder(frame + 1, frames)

\* `collect::<Vec<u8>>()` of a parallel iterator keeps the order of the
\* iterator's items, here of the range 0..frames.
RECURSIVE InFrameOrder(_, _)
InFrameOrder(frame, frames) ==
    IF frame >= frames THEN <<>>
    ELSE par.block[frame] \o InFrameOrder(frame + 1, frames)

\* Every closure has returned: the blocks are collected, the length is
\* asserted and the Animation returned.
Collect ==
    /\ grid.kind = "Grid"
    /\ surf.num_frames > 1
    /\ animation.kind = "none"
    /\ \A f \in DOMAIN par.status : par.status[f] = "done"
    /\ Finish(surf.num_verts, surf.num_frames, grid.rows_per_frame,
              UnwrapOr(width, surf.num_verts), grid.height,
              InFrameOrder(0, surf.num_frames))
    /\ UNCHANGED <<outside, overflow_checks, surf, width, target_endian, grid,
                   outline, calls, par, neg>>

\* The pixel at index i (from 0) of the data the `frames > 1` rule builds:
\* frame i div pixels_per_frame, element i mod pixels_per_frame of its slice
\* chained with zero pixels.
FramesPixelAt(i) ==
    IF i % grid.pixels_per_frame < surf.num_verts
    THEN to_pixel(VertexAt((i \div grid.pixels_per_frame) * surf.num_verts
                               + (i % grid.pixels_per_frame) + 1))
    ELSE ZeroPixel

\* The pixel at index i of the data the other branch builds: every vertex,
\* then the zero pixels.
SinglePixelAt(i) ==
    IF i < surf.vertices.len THEN to_pixel(VertexAt(i + 1)) ELSE ZeroPixel

\* The pixel at index i (from 0) of the data Arrange describes.
PixelAt(i) ==
    IF outline.branch = "frames" THEN FramesPixelAt(i) ELSE SinglePixelAt(i)

(***************************************************************************)
(* String::from_utf8_stop (str_util.rs)                                    *)
(***************************************************************************)

\* `b.is_ascii() && !b.is_ascii_control()`: below 128, and neither below 32
\* nor 127.
valid(b) == b < 128 /\ ~(b < 32 \/ b = 127)

\* `iter.position(valid)`: the index from 0 of the first valid byte among
\* bytes[i..], counted from bytes[1]; <<>> for None.
RECURSIVE PositionValid(_, _)
PositionValid(bytes, i) ==
    IF i > Len(bytes) THEN <<>>
    ELSE IF valid(bytes[i]) THEN <<i - 1>>
    ELSE PositionValid(bytes, i + 1)

\* `iter.position(|b| !valid(b))`
RECURSIVE PositionInvalid(_, _)
PositionInvalid(bytes, i) ==
    IF i > Len(bytes) THEN <<>>
    ELSE IF ~valid(bytes[i]) THEN <<i - 1>>
    ELSE PositionInvalid(bytes, i + 1)

\* (variant: the second search starts at the first byte again)
NoSkip(bytes, n) == bytes

\* `bytes.iter().skip(n)`
Skip(bytes, n) == SubSeq(bytes, n + 1, Len(bytes))

\* `&bytes[first..last]`, indices from 0
Slice(bytes, first, last) == SubSeq(bytes, first + 1, last)

LastValid(bytes, first_valid, first_invalid) ==
    IF first_invalid # <<>> THEN first_valid + first_invalid[1] ELSE Len(bytes)

StopAt(bytes, first_valid) ==
    Slice(bytes, first_valid,
          LastValid(bytes, first_valid,
                    PositionInvalid(Skip(bytes, first_valid), 1)))

from_utf8_stop(bytes) ==
    IF PositionValid(bytes, 1) = <<>> THEN <<>>
    ELSE StopAt(bytes, PositionValid(bytes, 1)[1])

NoText == [bytes |-> <<>>, kind |-> "none", str |-> <<>>]

FromUtf8Stop ==
    /\ text.kind = "none"
    /\ text' = [text EXCEPT !.kind = "Str", !.str = from_utf8_stop(text.bytes)]
    /\ UNCHANGED <<decoder, overflow_checks, packer, pix, app>>

(***************************************************************************)
(* Texture::try_from_md3: the widths it asks make_animation for.           *)
(***************************************************************************)

\* neg.pc: "idle" (no call), "start" (called), "loop" (in the loop), "done"
\* (returned).  neg.pot is MAX_TEXTURE_POT, set once by the embedding
\* program before the call.  neg.attempts is the width and height of every
\* try_upload so far; neg.created and neg.deleted count create_texture and
\* delete_texture.
NoNegotiation ==
    [pc |-> "idle", pot |-> 0, two_power |-> 0, attempts |-> <<>>,
     created |-> 0, deleted |-> 0, result |-> "none", rows_per_frame |-> 0]

\* (variant: the largest power of two below w, whatever the limit)
TwoPowerUncapped(i, w) == IF w <= 2 THEN 0 ELSE Log2From(w - 1, 0)

\* `(1..pot).rev().filter(|&i| 2i32.pow(i) < width).next().unwrap_or(0)`:
\* the candidates i < `i` downwards, the first with 2^i < w, 0 if none.
RECURSIVE TwoPower(_, _)
TwoPower(i, w) ==
    IF i <= 1 THEN 0
    ELSE IF 2^(i - 1) < w THEN i - 1
    ELSE TwoPower(i - 1, w)

\* (variant: a surface without vertices is given the width 1)
AtLeastOne(v) == IF v = 0 THEN 1 ELSE v

\* `surf.num_verts as i32`: the value itself for counts below 2^31 (all
\* counts here are).
usize_as_i32(v) == v

\* `let mut width = ...; let mut two_power = ...;`
Begin ==
    /\ neg.pc = "start"
    /\ width' = <<usize_as_i32(surf.num_verts)>>
    /\ neg' = [neg EXCEPT !.pc = "loop",
                          !.two_power = TwoPower(neg.pot, surf.num_verts)]
    /\ UNCHANGED <<outside, overflow_checks, surf, animation, target_endian,
                   grid, outline, calls, par>>

\* What try_upload can return: the texture, or an error after
\* create_texture failed (Message), after glGetError gave INVALID_VALUE
\* (TooBig) or another error (GLError).
UploadOutcomes == {"Ok", "Message", "TooBig", "GLError"}

\* (variant: a texture whose upload failed is left to the context)
TriedWithoutDelete(outcome) ==
    [neg EXCEPT
       !.attempts = Append(@, [width |-> width[1], height |-> grid.height,
                               outcome |-> outcome]),
       !.created = IF outcome = "Message" THEN @ ELSE @ + 1]

Tried(outcome) ==
    [neg EXCEPT
       !.attempts = Append(@, [width |-> width[1], height |-> grid.height,
                               outcome |-> outcome]),
       !.created = IF outcome = "Message" THEN @ ELSE @ + 1,
       !.deleted = IF outcome \in {"TooBig", "GLError"} THEN @ + 1 ELSE @]

\* (variant: the last candidate is given up untried)
MoreThanOneLeft(two_power) == two_power > 1

\* `if two_power > 0`
CanReduce(two_power) == two_power > 0

\* (variant: the exponent is not counted down)
Kept(two_power) == two_power

\* `two_power -= 1`
Decremented(two_power) == two_power - 1

\* (variant: any error of the upload itself is answered by a smaller width)
RetriesOnError(outcome) == outcome \in {"TooBig", "GLError"}

\* `UploadError::TooBig => { if two_power > 0 ...`: the one arm of the match
\* that does not break out of the loop.
Retries(outcome) == outcome = "TooBig"

\* One turn of the loop after make_animation returned: try_upload and the
\* match on its result.
Upload(outcome) ==
    /\ neg.pc = "loop"
    /\ outline.kind = "Animation"
    /\ IF Retries(outcome) /\ CanReduce(neg.two_power)
       THEN /\ width' = <<2^neg.two_power>>
            /\ neg' = [Tried(outcome) EXCEPT !.two_power = Decremented(@)]
            /\ grid' = NotMeasured
            /\ outline' = NotArranged
       ELSE /\ neg' = [Tried(outcome) EXCEPT
                         !.pc = "done",
                         !.result = outcome,
                         !.rows_per_frame = IF outcome = "Ok"
                                            THEN grid.rows_per_frame ELSE @]
            /\ UNCHANGED <<width, grid, outline>>
    /\ UNCHANGED <<outside, overflow_checks, surf, animation, target_endian,
                   calls, par>>

\* `surf.make_animation(Some(width as usize))`, at the top of the loop.
CallMakeAnimation ==
    /\ neg.pc = "loop"
    /\ Measure

(***************************************************************************)
(* Inputs: file images.  Canon lays the blocks out back to back in the     *)
(* format's usual order; the variants change one thing about such a file.  *)
(***************************************************************************)
SurfSize(nf, shape) ==
    HeaderSize + ShaderSize * shape[1] + TriangleSize * shape[2]
        + TexCoordSize * shape[3] + VertexSize * shape[3] * nf

\* shape = <<shaders, triangles, vertices>> of every surface
CanonSurf(at, nf, shape) ==
    [at |-> at, id |-> MD3_ID, nf |-> nf, nsh |-> shape[1], nv |-> shape[3],
     ntri |-> shape[2],
     oSh |-> HeaderSize,
     oTri |-> HeaderSize + ShaderSize * shape[1],
     oUv |-> HeaderSize + ShaderSize * shape[1] + TriangleSize * shape[2],
     oV |-> HeaderSize + ShaderSize * shape[1] + TriangleSize * shape[2]
                + TexCoordSize * shape[3],
     oE |-> SurfSize(nf, shape)]

\* `gap` unused bytes lie between the tags and the first surface.
CanonGap(nf, nt, ns, shape, gap) ==
    LET offT == HeaderSize + FrameSize * nf
        offS == offT + TagSize * nt * nf + gap
        end == offS + ns * SurfSize(nf, shape)
    IN  [id |-> MD3_ID, version |-> MD3_VERSION, flags |-> <<0, 0, 0, 0>>,
         nf |-> nf, nt |-> nt, ns |-> ns,
         offF |-> HeaderSize, offT |-> offT, offS |-> offS, offE |-> end,
         surfs |-> [k \in 1..ns |->
                        CanonSurf(offS + (k - 1) * SurfSize(nf, shape), nf, shape)],
         len |-> end, patch |-> {}]

Canon(nf, nt, ns, shape) == CanonGap(nf, nt, ns, shape, 0)

Shapes == {<<0, 0, 0>>, <<MaxShaders, MaxTris, MaxVerts>>}

\* The counts canonical files are written with: none, one, the most.
Counts(most) == {0, 1, most}

CanonInputs ==
    {Canon(nf, nt, ns, shape) :
        nf \in Counts(MaxFrames), nt \in Counts(MaxTags), ns \in Counts(MaxSurfs),
        shape \in Shapes}

FullShape == <<MaxShaders, MaxTris, MaxVerts>>

\* The files the variants below are derived from.
BaseInputs == {Canon(MaxFrames, MaxTags, MaxSurfs, FullShape)}

BadIds == {<<73, 68, 80, 52>>, <<0, 68, 80, 51>>, <<51, 80, 68, 73>>}

BadVersions == {14, 16, 0, -1, 271, 3840, 2147483647, -2147483647 - 1}

\* The first four bytes are not the identifier; the rest is a valid file, a
\* file of an unsupported version, or missing.
WrongIdInputs ==
    {[d EXCEPT !.id = id, !.version = v, !.len = n] :
        d \in BaseInputs, id \in BadIds, v \in {MD3_VERSION, 14},
        n \in {IntLen, IntLen + 1, 2 * IntLen}}
    \cup {[d EXCEPT !.id = id, !.version = 14] : d \in BaseInputs, id \in BadIds}
    \cup {[d EXCEPT !.id = id] : d \in CanonInputs, id \in BadIds}

\* The version is not the supported one; the rest is a valid file or missing.
WrongVersionInputs ==
    {[d EXCEPT !.version = v] : d \in BaseInputs, v \in BadVersions}
    \cup {[d EXCEPT !.version = v, !.len = 2 * IntLen] :
            d \in BaseInputs, v \in BadVersions}
    \cup {[d EXCEPT !.version = 14] : d \in CanonInputs}

\* The declared end lies before or beyond the position the decoder ends at,
\* or bytes follow the declared end.
EndInputs ==
    {[d EXCEPT !.offE = 0] : d \in CanonInputs}
    \cup {[d EXCEPT !.offE = d.offE - 1] : d \in CanonInputs}
    \cup {[d EXCEPT !.offE = d.offE + 1] : d \in BaseInputs}
    \cup {[d EXCEPT !.len = d.len + 3] : d \in BaseInputs}

WithSurfaces == {d \in CanonInputs : d.ns > 0}

\* One surface declares an end before or beyond the end of its vertex block.
SurfaceEndInputs ==
    UNION {{[d EXCEPT !.surfs[k].oE = d.surfs[k].oE - 1] : k \in 1..d.ns} :
              d \in WithSurfaces}
    \cup UNION {{[d EXCEPT !.surfs[k].oE = d.surfs[k].oE + 1] : k \in 1..d.ns} :
                   d \in BaseInputs}

\* One surface block does not start with the identifier.
SurfaceIdInputs ==
    UNION {{[d EXCEPT !.surfs[k].id = id] : k \in 1..d.ns, id \in BadIds} :
              d \in WithSurfaces}

\* A block is stored after the declared end: the frames, the tags, or the
\* shaders of the last surface.
DisplacedInputs ==
    {[Canon(1, 0, 0, <<0, 0, 0>>) EXCEPT !.offS = HeaderSize, !.offE = HeaderSize]}
    \cup {[d EXCEPT !.offF = d.offE, !.len = d.offE + FrameSize * d.nf] :
        d \in BaseInputs}
    \cup {[d EXCEPT !.offT = d.offE, !.len = d.offE + TagSize * d.nt * d.nf] :
            d \in BaseInputs}
    \cup {[d EXCEPT !.surfs[d.ns].oSh = d.surfs[d.ns].oE,
                    !.len = d.offE + ShaderSize * d.surfs[d.ns].nsh] :
            d \in BaseInputs}

\* The sections of the last surface are stored in the order vertices, UVs,
\* triangles, shaders.
ReorderedInputs ==
    {LET s == d.surfs[d.ns]
         oV == HeaderSize
         oUv == oV + VertexSize * s.nv * s.nf
         oTri == oUv + TexCoordSize * s.nv
         oSh == oTri + TriangleSize * s.ntri
     IN  [d EXCEPT !.surfs[d.ns].oV = oV, !.surfs[d.ns].oUv = oUv,
                   !.surfs[d.ns].oTri = oTri, !.surfs[d.ns].oSh = oSh] :
        d \in BaseInputs}

\* Tag and frame counts whose u32 product does not fit 32 bits
\* (2^30 * 4 = 2^32), or is large.
LargeCountInputs ==
    LET big == 2^30
        frames == 4
        d == Canon(frames, 0, 0, <<0, 0, 0>>)
    IN  {[d EXCEPT !.nt = big],
         [d EXCEPT !.nt = big + 1, !.len = d.len + frames * TagSize],
         [d EXCEPT !.nt = big + 1],
         [d EXCEPT !.nt = big \div frames],
         [Canon(1, 0, 0, <<0, 0, 0>>) EXCEPT !.nt = big]}

GapInputs == {CanonGap(0, 0, 1, <<0, 0, 0>>, 2 * IntLen)}

Inputs ==
    CanonInputs \cup GapInputs \cup WrongIdInputs \cup WrongVersionInputs \cup EndInputs
    \cup SurfaceEndInputs \cup SurfaceIdInputs \cup DisplacedInputs
    \cup ReorderedInputs \cup LargeCountInputs

\* The files given to the viewer: models with and without frames, tags and
\* a surface, a file that is not an MD3, and one that ends early.
MaxLoads == 2
MaxViewFrames == 2

ViewerInputs ==
    {Canon(nf, 1, 1, <<1, 0, 1>>) : nf \in 0..MaxViewFrames}
    \cup {Canon(MaxViewFrames, 0, 0, <<0, 0, 0>>)}
    \cup {[Canon(1, 1, 0, <<0, 0, 0>>) EXCEPT !.id = <<73, 68, 80, 52>>]}
    \cup {[Canon(1, 1, 0, <<0, 0, 0>>) EXCEPT !.len = @ - 1]}

(***************************************************************************)
(* The viewer (main.rs): the App fields the file-dialog handler sets, the  *)
(* frame bar, and the tag drawing.  current_frame is an f32; what the      *)
(* program uses of it is its floor and its ceiling, and that is what is    *)
(* kept: [floor |-> f, ceil |-> f] is the whole number f, [floor |-> f,    *)
(* ceil |-> f + 1] any value strictly between f and f + 1.  Floats are     *)
(* carried as their bit patterns; those of the inputs are positive and     *)
(* finite, so the greater pattern is the greater number.                   *)
(***************************************************************************)
\* Option<_>: <<>> is None, <<v>> is Some(v).  app.pc is "ui" between
\* handlers, "loading" while the file-dialog handler runs read_md3 and
\* "crashed" after a panic.  History: app.loads counts the files selected,
\* app.attempt tells how the last one went.
NoApp ==
    [pc |-> "ui", model_data |-> <<>>, models |-> <<>>, frame_range |-> <<>>,
     current_frame |-> [floor |-> 0, ceil |-> 0], anim_playing |-> FALSE,
     distance |-> 0, texture_cache |-> {}, error_message |-> <<>>,
     loads |-> 0, attempt |-> "none"]

\* `self.frames.iter().map(|f| f.radius).reduce(f32::max).unwrap_or(0.)`
max_radius(m) ==
    IF m.frames = <<>> THEN 0
    ELSE CHOOSE r \in {m.frames[i].radius : i \in 1..Len(m.frames)} :
             \A i \in 1..Len(m.frames) : m.frames[i].radius <= r

\* `x * 2.` on the pattern of a positive f32: a subnormal doubles its
\* fraction, a normal number gains one in the exponent, up to infinity.
Twice(x) ==
    IF x < 2^23 THEN 2 * x
    ELSE IF x >= 254 * 2^23 THEN 255 * 2^23
    ELSE x + 2^23

\* `if num_frames > 1 { Some(0.0..=(num_frames - 1) as f32) } else { None }`
FrameRange(num_frames) == IF num_frames > 1 THEN <<num_frames - 1>> ELSE <<>>

\* (variant: the model of the failed load's predecessor is dropped)
LoadFailedClearing(a, e) ==
    [a EXCEPT !.pc = "ui", !.attempt = "failed", !.model_data = <<>>,
              !.models = <<>>, !.frame_range = <<>>,
              !.error_message = <<[what |-> "Error reading file", err |-> e]>>]

\* `if let Err(e) = ... { app.error_message = Some(format!(..)) }`: the
\* closure given to the second and_then did not run.
LoadFailed(a, e) ==
    [a EXCEPT !.pc = "ui", !.attempt = "failed",
              !.error_message = <<[what |-> "Error reading file", err |-> e]>>]

\* The messages the closure leaves when uploads or images failed: the
\* animation's error replaces the message, an image's error is appended to
\* it or becomes it.
Messages(before, dropped, unloaded) ==
    IF dropped = {} /\ unloaded = {} THEN before
    ELSE <<[what |-> "load", animation |-> dropped, image |-> unloaded]>>

\* The closure given to the second and_then, on the model read_md3
\* returned.  `uploaded` are the surfaces whose animation texture was
\* uploaded (the others are left out of app.models), `loaded` those among
\* them with a shader whose image was read and uploaded (it enters the
\* cache; the others get the null texture and leave a message).
LoadSucceeded(a, m, uploaded, loaded) ==
    [a EXCEPT !.pc = "ui", !.attempt = "loaded",
              !.frame_range = FrameRange(Len(m.frames)),
              !.texture_cache = loaded,
              !.anim_playing = FALSE,
              !.current_frame = [floor |-> 0, ceil |-> 0],
              !.model_data = <<m>>,
              !.distance = Twice(max_radius(m)),
              !.models = [k \in 1..Cardinality(uploaded) |->
                             CHOOSE i \in uploaded :
                                 Cardinality({j \in uploaded : j < i}) = k - 1],
              !.error_message =
                  Messages(@, (1..Len(m.surfaces)) \ uploaded,
                           {i \in uploaded : m.surfaces[i].shaders # <<>>}
                               \ loaded)]

\* `File::open(&fpath)` fails: nothing is read.
OpenFails ==
    /\ app' = [LoadFailed(app, <<"io">>) EXCEPT !.loads = @ + 1]
    /\ UNCHANGED <<input, flen, pos, pc, model, hdr, surface, soff, ret,
                   hiRead, touched, log>>

\* `File::open(&fpath)` gives the file d, and read_md3 is called on it.
OpenGives(d) ==
    /\ input' = d
    /\ flen' = d.len
    /\ Call
    /\ app' = [app EXCEPT !.pc = "loading", !.loads = @ + 1]

\* `if app.open_file_dialog.selected() { if let Some(fpath) = ...`
SelectFile ==
    /\ app.pc = "ui"
    /\ app.loads < MaxLoads
    /\ \/ OpenFails
       \/ \E d \in ViewerInputs : OpenGives(d)
    /\ UNCHANGED <<overflow_checks, reopened, prev, packer, text, pix>>

\* read_md3 has ended: the rest of the handler.  A panic of read_md3 ends
\* the program.
Loaded ==
    /\ app.pc = "loading"
    /\ pc = "done"
    /\ IF ret.kind = "Panic" THEN app' = [app EXCEPT !.pc = "crashed"]
       ELSE IF ret.kind # "Ok"
       THEN app' = LoadFailed(app, <<ret.kind, ret.val>>)
       ELSE \E uploaded \in SUBSET (1..Len(ret.model[1].surfaces)) :
               \E loaded \in SUBSET {i \in uploaded :
                                        ret.model[1].surfaces[i].shaders # <<>>} :
                  app' = LoadSucceeded(app, ret.model[1], uploaded, loaded)
    /\ UNCHANGED <<decoder, overflow_checks, packer, text, pix>>

\* `tag_index + num_tags * current_frame` (usize)
TagIndex(tag_index, num_tags, frame) == tag_index + num_tags * frame

\* The indices `&model.tags[tag_a]`, `&model.tags[tag_b]` of one drawing
\* of the tags, counted from 0.
Lookups(m, frame) ==
    UNION {{TagIndex(t, m.num_tags, frame.floor),
            TagIndex(t, m.num_tags, frame.ceil)} : t \in 0..(m.num_tags - 1)}

\* DRAW TAG AXES, once per frame of the display: an index that is not
\* below tags.len() panics.
DrawTags ==
    /\ app.pc = "ui"
    /\ app.model_data # <<>>
    /\ \E i \in Lookups(app.model_data[1], app.current_frame) :
          i >= Len(app.model_data[1].tags)
    /\ app' = [app EXCEPT !.pc = "crashed"]
    /\ UNCHANGED <<decoder, overflow_checks, packer, text, pix>>

\* The values a frame bar with the range 0.0..=last can give.
FrameValues(last) ==
    {[floor |-> f, ceil |-> f] : f \in 0..last}
        \cup {[floor |-> f, ceil |-> f + 1] : f \in 0..(last - 1)}

\* `egui::Slider::new(&mut app.current_frame, range.clone())`
Slide ==
    /\ app.pc = "ui"
    /\ app.frame_range # <<>>
    /\ \E v \in FrameValues(app.frame_range[1]) :
          app' = [app EXCEPT !.current_frame = v]
    /\ UNCHANGED <<decoder, overflow_checks, packer, text, pix>>

\* The play button.
TogglePlay ==
    /\ app.pc = "ui"
    /\ app.frame_range # <<>>
    /\ app' = [app EXCEPT !.anim_playing = ~@]
    /\ UNCHANGED <<decoder, overflow_checks, packer, text, pix>>

\* `((now - anim_start_time).as_secs_f32() + anim_start_frame) % fc`, fc the
\* end of the range: a value from 0 up to, not including, fc.
Playback ==
    /\ app.pc = "ui"
    /\ app.frame_range # <<>>
    /\ app.anim_playing
    /\ \E v \in FrameValues(app.frame_range[1]) :
          /\ v.floor < app.frame_range[1]
          /\ app' = [app EXCEPT !.current_frame = v]
    /\ UNCHANGED <<decoder, overflow_checks, packer, text, pix>>

\* The OK button of the error window.
DismissError ==
    /\ app.pc = "ui"
    /\ app.error_message # <<>>
    /\ app' = [app EXCEPT !.error_message = <<>>]
    /\ UNCHANGED <<decoder, overflow_checks, packer, text, pix>>

(***************************************************************************)
(* The decoder's specification.                                            *)
(***************************************************************************)
\* No decoder call is under way.
NoDecoder ==
    /\ input = Canon(0, 0, 0, <<0, 0, 0>>)
    /\ flen = 0
    /\ pos = 0
    /\ pc = "idle"
    /\ model = NewModel
    /\ hdr = NoHdr
    /\ surface = NewSurface
    /\ soff = NoSoff
    /\ ret = Running
    /\ hiRead = 0
    /\ touched = {}
    /\ log = <<>>
    /\ reopened = "no"
    /\ prev = [kind |-> "none", hi |-> 0]

\* No make_animation call is under way.
NoPacker ==
    /\ surf = [num_verts |-> 0, num_frames |-> 0,
               vertices |-> [len |-> 0, seed |-> 0]]
    /\ width = <<>>
    /\ animation = NotCalled
    /\ target_endian = "little"
    /\ grid = NotMeasured
    /\ outline = NotArranged
    /\ calls = <<>>
    /\ par = NoTasks
    /\ neg = NoNegotiation

vars == <<input, flen, pos, pc, model, hdr, surface, soff, ret,
          overflow_checks, hiRead, touched, log, reopened, prev,
          surf, width, animation, target_endian, grid, outline, calls, par,
          neg, text, pix, app>>

Init ==
    /\ input \in Inputs
    /\ flen = input.len
    /\ pos = 0
    /\ pc = "magic"
    /\ model = NewModel
    /\ hdr = NoHdr
    /\ surface = NewSurface
    /\ soff = NoSoff
    /\ ret = Running
    /\ overflow_checks = "unset"
    /\ hiRead = 0
    /\ touched = {}
    /\ log = <<>>
    /\ reopened = "no"
    /\ prev = [kind |-> "none", hi |-> 0]
    /\ NoPacker
    /\ app = NoApp
    /\ text = NoText
    /\ pix = NoPixel

Next ==
    \/ ReadMagic
    \/ ReadVersion
    \/ ReadHeader
    \/ ReadFrames
    \/ ReadTags
    \/ SeekSurfaces
    \/ SurfaceHeader
    \/ SurfaceShaders
    \/ SurfaceTriangles
    \/ SurfaceUVs
    \/ SurfaceVertices
    \/ SurfaceEnd
    \/ EndCheck
    \/ OpenTruncated

Spec == Init /\ [][Next]_vars

(***************************************************************************)
(* The viewer's specification: files are selected one after the other, and *)
(* between two of them the frame bar is used and the tags are drawn.       *)
(***************************************************************************)
InitViewer ==
    /\ input = Canon(0, 0, 0, <<0, 0, 0>>)
    /\ flen = 0
    /\ pos = 0
    /\ pc = "idle"
    /\ model = NewModel
    /\ hdr = NoHdr
    /\ surface = NewSurface
    /\ soff = NoSoff
    /\ ret = Running
    /\ overflow_checks = "unset"
    /\ hiRead = 0
    /\ touched = {}
    /\ log = <<>>
    /\ reopened = "no"
    /\ prev = [kind |-> "none", hi |-> 0]
    /\ surf = [num_verts |-> 0, num_frames |-> 0,
               vertices |-> [len |-> 0, seed |-> 0]]
    /\ width = <<>>
    /\ animation = NotCalled
    /\ target_endian = "little"
    /\ grid = NotMeasured
    /\ outline = NotArranged
    /\ calls = <<>>
    /\ par = NoTasks
    /\ neg = NoNegotiation
    /\ text = NoText
    /\ pix = NoPixel
    /\ app = NoApp

NextViewer ==
    \/ SelectFile
    \/ ReadMagic
    \/ ReadVersion
    \/ ReadHeader
    \/ ReadFrames
    \/ ReadTags
    \/ SeekSurfaces
    \/ SurfaceHeader
    \/ SurfaceShaders
    \/ SurfaceTriangles
    \/ SurfaceUVs
    \/ SurfaceVertices
    \/ SurfaceEnd
    \/ EndCheck
    \/ Loaded
    \/ DrawTags
    \/ Slide
    \/ TogglePlay
    \/ Playback
    \/ DismissError

SpecViewer == InitViewer /\ [][NextViewer]_vars

(***************************************************************************)
(* The decoder on two streams that differ in bytes the first call did not  *)
(* read: files with every block in place, with unused bytes between blocks *)
(* and after the last one, and files the decoder rejects.                  *)
(***************************************************************************)
SmallInputs == {Canon(1, 1, 1, <<0, 0, 1>>)}

\* `gap` unused bytes lie between the UVs and the vertices of the surface.
SurfaceGapInputs ==
    {[d EXCEPT !.surfs[1].oV = @ + 2 * IntLen, !.surfs[1].oE = @ + 2 * IntLen,
               !.offE = @ + 2 * IntLen, !.len = @ + 2 * IntLen] :
        d \in SmallInputs}

UnreadInputs ==
    BaseInputs \cup GapInputs \cup SurfaceGapInputs
    \cup {[d EXCEPT !.len = d.len + 3] : d \in BaseInputs}
    \cup {[d EXCEPT !.len = d.len - 1] : d \in BaseInputs}
    \cup {[d EXCEPT !.offE = d.offE - 1] : d \in BaseInputs}
    \cup {[d EXCEPT !.id = id] : d \in SmallInputs, id \in BadIds}
    \cup {[d EXCEPT !.version = v] : d \in SmallInputs, v \in {14, 16}}
    \cup {[d EXCEPT !.surfs[1].id = id] : d \in SmallInputs, id \in BadIds}
    \cup {[d EXCEPT !.len = HeaderSize - 1] : d \in SmallInputs}

InitUnread ==
    /\ input \in UnreadInputs
    /\ flen = input.len
    /\ pos = 0
    /\ pc = "magic"
    /\ model = NewModel
    /\ hdr = NoHdr
    /\ surface = NewSurface
    /\ soff = NoSoff
    /\ ret = Running
    /\ overflow_checks = "unset"
    /\ hiRead = 0
    /\ touched = {}
    /\ log = <<>>
    /\ reopened = "no"
    /\ prev = [kind |-> "none", hi |-> 0]
    /\ NoPacker
    /\ app = NoApp
    /\ text = NoText
    /\ pix = NoPixel

NextUnread ==
    \/ ReadMagic
    \/ ReadVersion
    \/ ReadHeader
    \/ ReadFrames
    \/ ReadTags
    \/ SeekSurfaces
    \/ SurfaceHeader
    \/ SurfaceShaders
    \/ SurfaceTriangles
    \/ SurfaceUVs
    \/ SurfaceVertices
    \/ SurfaceEnd
    \/ EndCheck
    \/ OpenAltered

SpecUnread == InitUnread /\ [][NextUnread]_vars

(***************************************************************************)
(* The packer's specification: make_animation called on a surface as       *)
(* read_surface builds them (num_verts * num_frames vertices), with any    *)
(* width, on either byte order and build profile.                          *)
(***************************************************************************)
MaxAnimVerts == 3
MaxAnimFrames == 3
MaxWidth == 4

AnimSurfaces ==
    {[num_verts |-> v, num_frames |-> f,
      vertices |-> [len |-> v * f, seed |-> seed]] :
        v \in 0..MaxAnimVerts, f \in 0..MaxAnimFrames, seed \in 0..1}

Widths == {<<>>} \cup {<<w>> : w \in 0..MaxWidth}

InitAnim ==
    /\ NoDecoder
    /\ app = NoApp
    /\ overflow_checks \in {"on", "off"}
    /\ surf \in AnimSurfaces
    /\ width \in Widths
    /\ animation = NotCalled
    /\ target_endian \in {"little", "big"}
    /\ grid = NotMeasured
    /\ outline = NotArranged
    /\ calls = <<>>
    /\ par = NoTasks
    /\ neg = NoNegotiation
    /\ text = NoText
    /\ pix = NoPixel

NextAnim == MakeAnimation

SpecAnim == InitAnim /\ [][NextAnim]_vars

(***************************************************************************)
(* Repeated calls: make_animation of one surface, called again and again   *)
(* with any widths, the caller keeping every Animation it was given.       *)
(***************************************************************************)
MaxCallVerts == 2
MaxCallFrames == 2
MaxCallWidth == 2
MaxCalls == 3

CallSurfaces ==
    {[num_verts |-> v, num_frames |-> f, vertices |-> [len |-> v * f, seed |-> 0]] :
        v \in 0..MaxCallVerts, f \in 0..MaxCallFrames}

CallWidths == {<<>>} \cup {<<w>> : w \in 0..MaxCallWidth}

InitCalls ==
    /\ NoDecoder
    /\ app = NoApp
    /\ overflow_checks \in {"on", "off"}
    /\ surf \in CallSurfaces
    /\ width \in CallWidths
    /\ animation = NotCalled
    /\ target_endian \in {"little", "big"}
    /\ grid = NotMeasured
    /\ outline = NotArranged
    /\ calls = <<>>
    /\ par = NoTasks
    /\ neg = NoNegotiation
    /\ text = NoText
    /\ pix = NoPixel

NextCalls ==
    \/ MakeAnimation
    \/ CallAgain(CallWidths, MaxCalls)

SpecCalls == InitCalls /\ [][NextCalls]_vars

(***************************************************************************)
(* The parallel frames: make_animation of a surface of several frames, the *)
(* per-frame closures running in any interleaving.                         *)
(***************************************************************************)
MaxParVerts == 2
MaxParFrames == 3
MaxParWidth == 2

ParSurfaces ==
    {[num_verts |-> v, num_frames |-> f, vertices |-> [len |-> v * f, seed |-> 0]] :
        v \in 0..MaxParVerts, f \in 2..MaxParFrames}

ParWidths == {<<>>} \cup {<<w>> : w \in 0..MaxParWidth}

InitPar ==
    /\ NoDecoder
    /\ app = NoApp
    /\ overflow_checks \in {"on", "off"}
    /\ surf \in ParSurfaces
    /\ width \in ParWidths
    /\ animation = NotCalled
    /\ target_endian = "little"
    /\ grid = NotMeasured
    /\ outline = NotArranged
    /\ calls = <<>>
    /\ par = TasksOf(surf.num_frames)
    /\ neg = NoNegotiation
    /\ text = NoText
    /\ pix = NoPixel

NextPar ==
    \/ Measure
    \/ \E f \in 0..(MaxParFrames - 1) : f < surf.num_frames /\ StartFrame(f)
    \/ \E f \in 0..(MaxParFrames - 1) : f < surf.num_frames /\ EndFrame(f)
    \/ Collect

SpecPar == InitPar /\ [][NextPar]_vars

(***************************************************************************)
(* The negotiation's specification: one call of Texture::try_from_md3,     *)
(* try_upload answering as it likes.                                       *)
(***************************************************************************)
MaxNegVerts == 9
MaxNegFrames == 2
MaxPot == 4

NegSurfaces ==
    {[num_verts |-> v, num_frames |-> f, vertices |-> [len |-> v * f, seed |-> 0]] :
        v \in 0..MaxNegVerts, f \in 0..MaxNegFrames}

InitNeg ==
    /\ NoDecoder
    /\ app = NoApp
    /\ overflow_checks \in {"on", "off"}
    /\ surf \in NegSurfaces
    /\ width = <<>>
    /\ animation = NotCalled
    /\ target_endian = "little"
    /\ grid = NotMeasured
    /\ outline = NotArranged
    /\ calls = <<>>
    /\ par = NoTasks
    /\ \E pot \in 0..MaxPot :
          neg = [NoNegotiation EXCEPT !.pc = "start", !.pot = pot]
    /\ text = NoText
    /\ pix = NoPixel

NextNeg ==
    \/ Begin
    \/ CallMakeAnimation
    \/ Arrange
    \/ \E outcome \in UploadOutcomes : Upload(outcome)

SpecNeg == InitNeg /\ [][NextNeg]_vars

\* try_from_md3 is straight-line code around one loop: whenever a step of
\* it can be taken, it is taken.
SpecNegFair == SpecNeg /\ WF_vars(NextNeg)

(***************************************************************************)
(* The strings' specification: from_utf8_stop of every short byte string   *)
(* over bytes on both sides of each boundary of `valid`.                   *)
(***************************************************************************)
MaxStrLen == 4

ByteSamples == {0, 31, 32, 65, 126, 127, 128, 255}

ByteStrings == UNION {[1..n -> ByteSamples] : n \in 0..MaxStrLen}

InitStr ==
    /\ NoDecoder
    /\ app = NoApp
    /\ overflow_checks = "on"
    /\ NoPacker
    /\ \E bytes \in ByteStrings : text = [NoText EXCEPT !.bytes = bytes]
    /\ pix = NoPixel

NextStr == FromUtf8Stop

SpecStr == InitStr /\ [][NextStr]_vars

(***************************************************************************)
(* The pixels' specification: to_pixel of vertices with fields at the ends *)
(* and the middle of their 16-bit ranges.                                   *)
(***************************************************************************)
SignedSamples == {-32768, -32767, -1, 0, 1, 32767}

UnsignedSamples == {0, 1, 32767, 32768, 65534, 65535}

InitPixel ==
    /\ NoDecoder
    /\ app = NoApp
    /\ overflow_checks = "on"
    /\ NoPacker
    /\ text = NoText
    /\ \E x \in SignedSamples, y \in SignedSamples, z \in SignedSamples,
          n \in UnsignedSamples :
          pix = [NoPixel EXCEPT !.vert = [x |-> x, y |-> y, z |-> z, n |-> n]]

NextPixel == ToPixel

SpecPixel == InitPixel /\ [][NextPixel]_vars

(***************************************************************************)
(* The grid's specification: make_animation in two steps, the grid and     *)
(* the data laid on it, for vertex counts and widths small and large.  The *)
(* data is held by description (Arrange), so its size does not matter.     *)
(***************************************************************************)
MaxGridVerts == 9
MaxGridWidth == 5
MaxGridFrames == 2

\* Counts around the limit of f32's 24-bit significand.
LargeCounts ==
    {2^24 - 1, 2^24, 2^24 + 1, 2^24 + 2, 2^24 + 3, 2^25 + 1, 2^25 + 2, 2^25 + 3,
     2^25 + 6, 3 * 2^23 + 1, 2^26 + 4, 2^26 + 12, 2^29 + 32}

GridVerts == (0..MaxGridVerts) \cup LargeCounts

GridWidths ==
    {<<>>} \cup {<<w>> : w \in (0..MaxGridWidth) \cup {2^23, 2^24, 3 * 2^23}
                                \cup LargeCounts}

GridSurfaces ==
    {[num_verts |-> v, num_frames |-> f, vertices |-> [len |-> v * f, seed |-> 0]] :
        v \in GridVerts, f \in 0..MaxGridFrames}

InitGrid ==
    /\ NoDecoder
    /\ app = NoApp
    /\ overflow_checks \in {"on", "off"}
    /\ surf \in GridSurfaces
    /\ width \in GridWidths
    /\ animation = NotCalled
    /\ target_endian = "little"
    /\ grid = NotMeasured
    /\ outline = NotArranged
    /\ calls = <<>>
    /\ par = NoTasks
    /\ neg = NoNegotiation
    /\ text = NoText
    /\ pix = NoPixel

NextGrid ==
    \/ Measure
    \/ Arrange

SpecGrid == InitGrid /\ [][NextGrid]_vars

(***************************************************************************)
(* Properties.                                                             *)
(***************************************************************************)
FirstFour == <<ByteAt(input, 0), ByteAt(input, 1), ByteAt(input, 2),
               ByteAt(input, 3)>>

\* The u32 stored little-endian at position p of the file image.
U32At(p) ==
    ByteAt(input, p) + 256 * ByteAt(input, p + 1)
        + 65536 * ByteAt(input, p + 2) + 16777216 * ByteAt(input, p + 3)

Done == pc = "done"

\* C1: when the first four bytes of the stream are readable and are not
\* "IDP3", read_md3 returns WrongId carrying exactly those four bytes and
\* nothing else, whatever the version field and the rest of the stream are;
\* the call never gets past the identifier.
C1_WrongIdCarriesBytes ==
    (flen >= IntLen /\ FirstFour # MD3_ID) =>
        /\ pc \in {"magic", "done"}
        /\ Done => ret = [kind |-> "WrongId", val |-> FirstFour, model |-> <<>>]

\* C1 happens: WrongId was returned for a stream whose version field is
\* unsupported as well and is present.
C1_Witness ==
    /\ Done
    /\ ret.kind = "WrongId"
    /\ FirstFour # MD3_ID
    /\ input.version # MD3_VERSION
    /\ flen >= 2 * IntLen

\* C2: when the stream starts with "IDP3" followed by four bytes whose
\* little-endian i32 value v is not 15, read_md3 returns
\* UnsupportedVersion(v), whatever follows (also when nothing follows); the
\* call never gets past the version.
C2_UnsupportedVersion ==
    (flen >= 2 * IntLen /\ FirstFour = MD3_ID /\ input.version # 15) =>
        /\ pc \in {"magic", "version", "done"}
        /\ Done => ret = [kind |-> "UnsupportedVersion",
                          val |-> <<input.version>>, model |-> <<>>]

\* C2 happens: a negative version was rejected in a stream of eight bytes.
C2_Witness ==
    /\ Done
    /\ ret.kind = "UnsupportedVersion"
    /\ ret.val[1] < 0
    /\ flen = 2 * IntLen

\* C3: a stream on which read_md3 succeeded, cut to a length below the
\* highest byte position the decoder read, makes read_md3 return EOF: never
\* another error, never a model; and no read of the call on the cut stream
\* reaches past the cut.
C3_TruncatedGivesEOF ==
    (reopened = "truncated" /\ prev.kind = "Ok" /\ flen < prev.hi) =>
        /\ hiRead <= flen
        /\ Done => ret = [kind |-> "EOF", val |-> <<>>, model |-> <<>>]

\* C3 happens: a decoded file was cut above its fixed header, the decoder
\* sought past the cut without failing, and the next read returned EOF.
C3_Witness ==
    /\ reopened = "truncated"
    /\ prev.kind = "Ok"
    /\ Done
    /\ ret.kind = "EOF"
    /\ flen >= HeaderSize
    /\ pos > flen

\* C3 happens below the fixed header as well.
C3_WitnessHeader ==
    /\ reopened = "truncated"
    /\ Done
    /\ ret.kind = "EOF"
    /\ flen < HeaderSize
    /\ flen >= 2 * IntLen

\* The declared end of the file and of the surface block that starts at
\* `base`, as stored in the file.
HeaderEnd == U32At(104)
SurfaceEndAt(base) == base + U32At(base + 104)

\* C4: the end check of read_md3 returns AfterEnd(position) exactly when the
\* position reached after the last surface (or after the seek to the
\* surfaces when there are none) is strictly greater than the header's end
\* offset, and the end check of read_surface does the same against
\* base + endOffset after the vertex block; AfterEnd comes from no other
\* step.  So on success each surface ended at or before its declared end and
\* the call ended at or before the header's declared end.
C4_EndChecks ==
    /\ [][/\ pc = "end" =>
                /\ (pos > HeaderEnd) <=> (ret' = AfterEnd(pos))
                /\ (pos <= HeaderEnd) <=> (ret'.kind = "Ok")
          /\ pc = "surf_end" =>
                /\ (pos > SurfaceEndAt(soff.offset_ref)) <=> (ret' = AfterEnd(pos))
                /\ (pos <= SurfaceEndAt(soff.offset_ref)) <=> (pc' # "done")
          /\ (ret.kind # "AfterEnd" /\ ret'.kind = "AfterEnd") =>
                pc \in {"end", "surf_end"}]_vars
    /\ [](ret.kind = "Ok" =>
            /\ pos <= HeaderEnd
            /\ \A k \in 1..Len(log) : log[k].fin <= SurfaceEndAt(log[k].base))

\* C4 happens: a decode succeeded with the final position equal to the
\* header's end offset and a surface ending exactly at base + endOffset.
C4_Witness ==
    /\ ret.kind = "Ok"
    /\ pos = HeaderEnd
    /\ Len(log) > 0
    /\ log[1].fin = SurfaceEndAt(log[1].base)

\* C4 happens on the failing side too: one byte past the declared end.
C4_WitnessPast ==
    /\ ret.kind = "AfterEnd"
    /\ ret.val[1] = HeaderEnd + 1

\* One past the last byte of a block of n records of the given size at
\* `offset` (0 for an empty block, which occupies no byte).
Extent(offset, size, n) == IF n = 0 THEN 0 ELSE offset + size * n

FramesExtent == Extent(U32At(92), FrameSize, U32At(76))
TagsExtent == Extent(U32At(96), TagSize, Len(model.tags))

\* C5: read_md3 never returns a model when the frame block, the tag block or
\* a section of a surface occupies bytes beyond the header's end offset, or a
\* surface's section occupies bytes beyond that surface's base + endOffset.
C5_NoModelOnOverrun ==
    ret.kind = "Ok" =>
        /\ FramesExtent <= HeaderEnd
        /\ TagsExtent <= HeaderEnd
        /\ \A k \in 1..Len(log) :
              /\ log[k].top <= HeaderEnd
              /\ log[k].top <= SurfaceEndAt(log[k].base)

\* The triangle record j (from 1) of the surface block at `base`, as the
\* file stores it.
StoredTriangle(base, j) ==
    LET t == base + U32At(base + 88) + 12 * (j - 1)
    IN  [a |-> U32At(t), b |-> U32At(t + 4), c |-> U32At(t + 8)]

\* C6: in a decoded model the triangle j of a surface is (c, b, a) where
\* (a, b, c) are the three little-endian u32 indices of the j-th triangle
\* record of that surface in the file: ends exchanged, middle kept, records
\* in file order, all of them, whatever the indices are.
C6_TriangleWinding ==
    ret.kind = "Ok" =>
        \A k \in 1..Len(model.surfaces) :
            /\ Len(model.surfaces[k].triangles) = U32At(log[k].base + 84)
            /\ \A j \in 1..Len(model.surfaces[k].triangles) :
                  model.surfaces[k].triangles[j] =
                      <<StoredTriangle(log[k].base, j).c,
                        StoredTriangle(log[k].base, j).b,
                        StoredTriangle(log[k].base, j).a>>

\* C6 happens: a decoded surface has two triangles whose stored end indices
\* differ and lie beyond the surface's vertex count.
C6_Witness ==
    /\ ret.kind = "Ok"
    /\ Len(model.surfaces) > 0
    /\ Len(model.surfaces[1].triangles) >= 2
    /\ \A j \in 1..2 :
          /\ StoredTriangle(log[1].base, j).a # StoredTriangle(log[1].base, j).c
          /\ model.surfaces[1].triangles[j][1] >= model.surfaces[1].num_verts
    /\ model.surfaces[1].triangles[1] # model.surfaces[1].triangles[2]

\* The 16-bit values stored little-endian at position p of the file image.
U16At(p) == ByteAt(input, p) + 256 * ByteAt(input, p + 1)
S16At(p) == IF U16At(p) >= 32768 THEN U16At(p) - 65536 ELSE U16At(p)

\* The vertex record i (from 0) of the surface block at `base`, as the file
\* stores it.
StoredVertex(base, i) ==
    LET p == base + U32At(base + 100) + 8 * i
    IN  [x |-> S16At(p), y |-> S16At(p + 2), z |-> S16At(p + 4),
         n |-> U16At(p + 6)]

\* The counts the header of the surface block at `base` declares.
DeclaredFrames(base) == U32At(base + 72)
DeclaredShaders(base) == U32At(base + 76)
DeclaredVerts(base) == U32At(base + 80)
DeclaredTris(base) == U32At(base + 84)

\* C7: in a decoded model the lengths are the declared counts: frames is
\* frameCount long, surfaces surfaceCount, and in each surface shaders is
\* shaderCount long, triangles triangleCount, texcoords num_verts (one per
\* vertex, not per frame) and vertices num_verts * num_frames, where vertex
\* v of frame f is the element at index v + num_verts * f.
C7_LengthsAreDeclaredCounts ==
    ret.kind = "Ok" =>
        /\ Len(model.frames) = U32At(76)
        /\ Len(model.surfaces) = U32At(84)
        /\ \A k \in 1..Len(model.surfaces) :
              LET s == model.surfaces[k]
                  base == log[k].base
              IN  /\ s.num_verts = DeclaredVerts(base)
                  /\ s.num_frames = DeclaredFrames(base)
                  /\ Len(s.shaders) = DeclaredShaders(base)
                  /\ Len(s.triangles) = DeclaredTris(base)
                  /\ Len(s.texcoords) = DeclaredVerts(base)
                  /\ Len(s.vertices) = DeclaredVerts(base) * DeclaredFrames(base)
                  /\ \A f \in 0..(DeclaredFrames(base) - 1) :
                        \A v \in 0..(DeclaredVerts(base) - 1) :
                            s.vertices[v + s.num_verts * f + 1] =
                                StoredVertex(base, f * DeclaredVerts(base) + v)

\* C7 happens: a decoded model has two surfaces of two vertices in two
\* frames each, and the second frame's vertices differ from the first's.
C7_Witness ==
    /\ ret.kind = "Ok"
    /\ Len(model.frames) >= 2
    /\ Len(model.surfaces) >= 2
    /\ model.surfaces[2].num_verts >= 2
    /\ model.surfaces[2].num_frames >= 2
    /\ Len(model.surfaces[2].texcoords) < Len(model.surfaces[2].vertices)
    /\ model.surfaces[2].vertices[1] # model.surfaces[2].vertices[3]

\* A length as the eight little-endian bytes of a 64-bit number.
Limbs8(n) == Limbs4(n) \o <<0, 0, 0, 0>>

\* C8: a successful decode yields tagCount * frameCount tags, the product of
\* the two header values taken in the integers (never reduced modulo 2^32),
\* and num_tags = tagCount.
C8_TagsLenIsProduct ==
    ret.kind = "Ok" =>
        /\ model.num_tags = U32At(80)
        /\ Limbs8(Len(model.tags)) = Product64(U32At(80), U32At(76))

\* The products that fit are read in full: a decode with tags succeeded.
C8_Fits ==
    /\ ret.kind = "Ok"
    /\ Len(model.tags) = MaxTags * MaxFrames
    /\ Len(model.tags) > 0

\* What one call of read_md3 owns: its position in the protocol, its locals
\* and its result.
call == <<pos, pc, model, hdr, surface, soff, ret, hiRead, log>>

\* C9: every decode error is terminal.  The step that fails, in read_md3 or
\* in anything it calls, ends the call with the error value alone: no model
\* comes with it, and nothing of the call changes afterwards; a call that
\* has ended with an error takes no further step.
C9_ErrorsAreTerminal ==
    /\ [][/\ (ret.kind = "none" /\ ret'.kind \in ErrorKinds) =>
                /\ pc' = "done"
                /\ ret'.model = <<>>
          /\ ret.kind \in ErrorKinds => UNCHANGED call]_vars
    /\ [](ret.kind \in ErrorKinds => pc = "done" /\ ret.model = <<>>)
    /\ [](pc = "done" <=> ret.kind # "none")

\* C9 happens: a call ended with an error after it had decoded frames, tags
\* and a surface.
C9_Witness ==
    /\ pc = "done"
    /\ ret.kind \in ErrorKinds
    /\ ret.model = <<>>
    /\ Len(model.frames) > 0
    /\ Len(model.tags) > 0
    /\ Len(model.surfaces) > 0

\* The width and height the claim computes with, and the length it states.
AnimW == UnwrapOr(width, surf.num_verts)
AnimH == animation.rows_per_frame * surf.num_frames
AnimLen == AnimW * AnimH * 16

\* C10 as stated: every Animation make_animation returns has
\* data.len() = W * H * 16 with W = width.unwrap_or(num_verts) and
\* H = rows_per_frame * num_frames; for width = None, rows_per_frame = 1 and
\* data.len() = num_verts * num_frames * 16.
C10_AsStated ==
    animation.kind = "Animation" =>
        /\ Len(animation.data) = AnimLen
        /\ width = <<>> =>
              /\ animation.rows_per_frame = 1
              /\ Len(animation.data) = surf.num_verts * surf.num_frames * 16

\* C10, amended: every Animation make_animation returns has
\* data.len() = W * H * 16 with W = width.unwrap_or(num_verts) and
\* H = rows_per_frame * num_frames; for width = None,
\* data.len() = num_verts * num_frames * 16 and rows_per_frame = 1 when
\* num_verts >= 1, rows_per_frame = 0 when num_verts = 0.
C10_DataLength ==
    animation.kind = "Animation" =>
        /\ Len(animation.data) = AnimLen
        /\ animation.vertices = surf.num_verts
        /\ animation.frames = surf.num_frames
        /\ width = <<>> =>
              /\ animation.rows_per_frame = (IF surf.num_verts = 0 THEN 0 ELSE 1)
              /\ Len(animation.data) = surf.num_verts * surf.num_frames * 16

\* C10 happens: an Animation of several frames was returned for a width that
\* does not divide the vertex count, so every frame block holds padding.
C10_Witness ==
    /\ animation.kind = "Animation"
    /\ width # <<>>
    /\ AnimW >= 2
    /\ surf.num_verts % AnimW # 0
    /\ surf.num_verts > AnimW
    /\ surf.num_frames >= 2
    /\ Len(animation.data) > surf.num_verts * surf.num_frames * 16

\* C10 happens for width = None as well.
C10_WitnessNone ==
    /\ animation.kind = "Animation"
    /\ width = <<>>
    /\ surf.num_verts >= 2
    /\ surf.num_frames >= 2
    /\ Len(animation.data) = surf.num_verts * surf.num_frames * 16

\* The vertex count and the width make_animation computes with.
GridV == surf.num_verts
GridW == UnwrapOr(width, surf.num_verts)

\* C11: for every vertex count V >= 1 and width W >= 1, rows_per_frame is
\* the exact integer ceiling of V / W (the least n with n * W >= V), so
\* pixels_per_frame = W * rows_per_frame satisfies
\* V <= pixels_per_frame < V + W.
C11_RowsAreExactCeiling ==
    (grid.kind = "Grid" /\ GridV >= 1 /\ GridW >= 1) =>
        /\ grid.rows_per_frame * GridW >= GridV
        /\ (grid.rows_per_frame - 1) * GridW < GridV
        /\ grid.pixels_per_frame = GridW * grid.rows_per_frame
        /\ GridV <= grid.pixels_per_frame
        /\ grid.pixels_per_frame < GridV + GridW

\* Below 2^24 the f32 quotient does give the exact ceiling.
C11_ExactBelowF32Limit ==
    (grid.kind = "Grid" /\ GridV >= 1 /\ GridW >= 1
        /\ GridV < 2^24 /\ GridW < 2^24) =>
        /\ grid.rows_per_frame * GridW >= GridV
        /\ (grid.rows_per_frame - 1) * GridW < GridV

GridF == surf.num_frames

\* A few vertex indices of a frame of n vertices: both ends and the middle.
Sampled(n) == {v \in {0, 1, n \div 2, n - 2, n - 1} : 0 <= v /\ v < n}

\* The vertex of frame f at index v within the frame (both from 0).
FrameVertexOf(f, v) == VertexAt(f * surf.num_verts + v + 1)

\* C12 -- texel placement: in the data make_animation returns for a surface
\* of V * F vertices and a width W >= 1, the pixel at index
\* f * pixels_per_frame + v is to_pixel of vertex v of frame f, for every
\* frame f < F and every vertex v < V (checked on the sampled v).
C12_TexelPlacement ==
    (outline.kind = "Animation" /\ GridW >= 1) =>
        \A f \in 0..(GridF - 1) : \A v \in Sampled(GridV) :
            /\ f * grid.pixels_per_frame + v < outline.pixels
            /\ PixelAt(f * grid.pixels_per_frame + v) = to_pixel(FrameVertexOf(f, v))

\* The same where the f32 quotient is exact (both counts below 2^24).
C12_PlacedBelowF32Limit ==
    (GridV < 2^24 /\ GridW < 2^24) => C12_TexelPlacement

\* On the bytes make_animation builds for small surfaces: the 16 bytes at
\* pixel index f * pixels_per_frame + v encode vertex v of frame f in the
\* target's byte order.
C12_BytesPlaced ==
    (animation.kind = "Animation" /\ AnimW >= 1) =>
        \A f \in 0..(surf.num_frames - 1) : \A v \in 0..(surf.num_verts - 1) :
            SubSeq(animation.data,
                   16 * (f * AnimW * animation.rows_per_frame + v) + 1,
                   16 * (f * AnimW * animation.rows_per_frame + v) + 16)
                = PixelBytes(to_pixel(FrameVertexOf(f, v)))

\* A few padding indices of a frame block: V <= j < pixels_per_frame.
SampledPadding(v, ppf) == {j \in {v, v + 1, ppf - 1} : v <= j /\ j < ppf}

\* C13 -- padding is frame-local and zero: in the data make_animation
\* returns for a width W >= 1, every pixel of frame block f at an index j
\* with V <= j < pixels_per_frame is the zero pixel, every pixel of the block
\* before that is a vertex of frame f itself, and when W divides V the
\* block has no padding (no index j with V <= j < pixels_per_frame).
C13_PaddingIsLocalAndZero ==
    (outline.kind = "Animation" /\ GridW >= 1) =>
        /\ \A f \in 0..(GridF - 1) :
              /\ \A j \in SampledPadding(GridV, grid.pixels_per_frame) :
                    PixelAt(f * grid.pixels_per_frame + j) = ZeroPixel
              /\ \A j \in Sampled(Min(GridV, grid.pixels_per_frame)) :
                    PixelAt(f * grid.pixels_per_frame + j)
                        = to_pixel(FrameVertexOf(f, j))
        /\ GridV % GridW = 0 => SampledPadding(GridV, grid.pixels_per_frame) = {}

\* The same where the f32 quotient is exact (both counts below 2^24).
C13_PaddedBelowF32Limit ==
    (GridV < 2^24 /\ GridW < 2^24) => C13_PaddingIsLocalAndZero

\* On the bytes make_animation builds for small surfaces: the padding of
\* every frame block is zero bytes, and there is none when W divides V.
C13_BytesPadded ==
    (animation.kind = "Animation" /\ AnimW >= 1) =>
        /\ \A f \in 0..(surf.num_frames - 1) :
              \A j \in surf.num_verts..(AnimW * animation.rows_per_frame - 1) :
                \A k \in 1..16 :
                    animation.data[16 * (f * AnimW * animation.rows_per_frame + j) + k] = 0
        /\ surf.num_verts % AnimW = 0
              => AnimW * animation.rows_per_frame = surf.num_verts

\* C14 -- single-frame equivalence: for a surface with num_frames = 1 and
\* vertices.len() = num_verts and a width W >= 1, the single-frame branch
\* of make_animation returns data identical to what the per-frame rule of
\* the other branch builds for F = 1: pixels_per_frame pixels, the same
\* pixel at every index (checked on the sampled ones).
C14_SingleFrameEquivalence ==
    (outline.kind # "none" /\ GridF = 1 /\ GridW >= 1) =>
        /\ outline.kind = "Animation"
        /\ outline.branch = "single"
        /\ outline.pixels = GridF * grid.pixels_per_frame
        /\ \A i \in Sampled(grid.pixels_per_frame) \cup Sampled(GridV) :
              i < outline.pixels => SinglePixelAt(i) = FramesPixelAt(i)

\* The same where the f32 quotient is exact (both counts below 2^24).
C14_EquivalentBelowF32Limit ==
    (GridV < 2^24 /\ GridW < 2^24) => C14_SingleFrameEquivalence

\* On the bytes make_animation builds for small surfaces of one frame: they
\* are the block the per-frame rule builds for frame 0.
C14_BytesEquivalent ==
    (animation.kind # "none" /\ surf.num_frames = 1 /\ AnimW >= 1) =>
        /\ animation.kind = "Animation"
        /\ animation.data
              = FrameBlocks(0, 1, surf.num_verts, AnimW * animation.rows_per_frame)

\* Every call made so far that returned: the earlier ones and the last.
Returned ==
    {calls[i] : i \in 1..Len(calls)}
        \cup (IF animation.kind = "Animation"
              THEN {[width |-> width, animation |-> animation]} ELSE {})

SliceOf(f) == (f * surf.num_verts + 1)..(f * surf.num_verts + surf.num_verts)

\* C16 -- the parallel frame packing is order-safe: whatever the order in
\* which the per-frame closures start and return, each reads only vertices
\* of its own frame's slice, and the data of the returned Animation is the
\* frame blocks in ascending frame index, what a sequential run builds.
C16_OrderSafe ==
    /\ \A f \in DOMAIN par.read : par.read[f] \subseteq SliceOf(f)
    /\ animation.kind = "Animation" =>
          animation.data
              = FrameBlocks(0, surf.num_frames, surf.num_verts, grid.pixels_per_frame)
    /\ animation.kind # "none" =>
          (animation.kind = "Animation"
              <=> LengthAsserted(FrameBlocks(0, surf.num_frames, surf.num_verts,
                                             grid.pixels_per_frame),
                                 UnwrapOr(width, surf.num_verts), grid.height))

\* The closures returned in descending frame order, the blocks differ, and
\* the Animation was returned.
C16_Witness ==
    /\ animation.kind = "Animation"
    /\ par.order = <<2, 1, 0>>
    /\ par.block[0] # par.block[1]
    /\ par.block[1] # par.block[2]
    /\ par.read[2] # {}

NegV == surf.num_verts

\* The largest power of two strictly less than w (w >= 2), from p up.
RECURSIVE PowerBelow(_, _)
PowerBelow(w, p) == IF 2 * p < w THEN PowerBelow(w, 2 * p) ELSE p

\* The powers of two 2^i, 1 <= i < MAX_TEXTURE_POT, strictly less than w.
Candidates(w) == {2^i : i \in {i \in 1..(neg.pot - 1) : 2^i < w}}

Largest(S) == CHOOSE x \in S : \A y \in S : y <= x

CeilLog2(v) == IF v <= 1 THEN 0 ELSE Log2From(v - 1, 0) + 1

FirstExponent ==
    IF Candidates(NegV) = {} THEN 0
    ELSE Largest({i \in 1..(neg.pot - 1) : 2^i < NegV})

Printable(b) == 32 <= b /\ b <= 126

\* C19 -- from_utf8_stop returns exactly the first maximal run of printable
\* ASCII bytes: bytes[s..e) where s is the first printable byte and e the
\* first index after s of a byte that is not, or the length; the empty
\* string when no byte is printable.
C19_FirstPrintableRun ==
    text.kind = "Str" =>
        IF \A i \in 1..Len(text.bytes) : ~Printable(text.bytes[i])
        THEN text.str = <<>>
        ELSE \E s \in 1..Len(text.bytes) : \E e \in s..Len(text.bytes) :
               /\ \A i \in 1..(s - 1) : ~Printable(text.bytes[i])
               /\ \A i \in s..e : Printable(text.bytes[i])
               /\ e = Len(text.bytes) \/ ~Printable(text.bytes[e + 1])
               /\ text.str = SubSeq(text.bytes, s, e)

\* A run in the middle of the buffer with another run after it: only the
\* first is returned.
C19_Witness ==
    /\ text.kind = "Str"
    /\ Len(text.bytes) = 4
    /\ ~Printable(text.bytes[1])
    /\ Printable(text.bytes[2])
    /\ ~Printable(text.bytes[3])
    /\ Printable(text.bytes[4])
    /\ text.str = <<text.bytes[2]>>

\* The order read_surface reads the sections in, and where in the surface
\* header each one's offset is declared.
SectionOrder == <<"shaders", "triangles", "texcoords", "vertices">>
DeclaredAt == <<92, 88, 96, 100>>

\* The seeks of a surface read at `base`: the sections in the fixed order,
\* each sought at base + the offset the surface's own header declares.
SelfRelative(base, seeks) ==
    /\ <<ByteAt(input, base), ByteAt(input, base + 1), ByteAt(input, base + 2),
         ByteAt(input, base + 3)>> = MD3_ID
    /\ Len(seeks) <= Len(SectionOrder)
    /\ \A i \in 1..Len(seeks) :
          seeks[i] = [section |-> SectionOrder[i],
                      target |-> base + U32At(base + DeclaredAt[i])]

\* C20 -- surface offsets are self-relative: every section seek of
\* read_surface targets base + the offset declared in that surface's
\* header, base being the position where the surface's own identifier
\* begins; and the sections are read in the order shaders, triangles, UVs,
\* vertices, wherever they lie in the file.
C20_SelfRelativeOffsets ==
    /\ \A k \in 1..Len(log) :
          Len(log[k].seeks) = Len(SectionOrder) /\ SelfRelative(log[k].base, log[k].seeks)
    /\ soff.seeks # <<>> => SelfRelative(soff.offset_ref, soff.seeks)

\* A file of two surfaces was decoded; the second one's sections are stored
\* in the opposite order, vertices first, and its base is not the first's.
C20_Witness ==
    /\ ret.kind = "Ok"
    /\ Len(log) = 2
    /\ log[2].base > log[1].base
    /\ log[1].base > 0
    /\ log[2].seeks[1].target > log[2].seeks[2].target
    /\ log[2].seeks[2].target > log[2].seeks[3].target
    /\ log[2].seeks[3].target > log[2].seeks[4].target
    /\ log[1].seeks[1].target < log[1].seeks[4].target

\* One past the last vertex record of the surface whose identifier lies at
\* `base`, by the file: its vertex offset plus 8 bytes for each of its
\* num_verts * num_frames records.
VerticesEndAt(base) ==
    base + U32At(base + 100) + VertexSize * U32At(base + 80) * U32At(base + 72)

\* C21 -- surface chaining: the base of surface k + 1 is the stream position
\* right after the last vertex record read for surface k, whether or not
\* that is base_k + endOffset_k; so surface k + 1 is decoded from the
\* declared end of surface k only if surface k's vertex block ends exactly
\* there.
C21_SurfaceChaining ==
    /\ \A k \in 1..Len(log) : log[k].fin = VerticesEndAt(log[k].base)
    /\ \A k \in 1..(Len(log) - 1) :
          /\ log[k + 1].base = log[k].fin
          /\ log[k + 1].base = SurfaceEndAt(log[k].base)
                => VerticesEndAt(log[k].base) = SurfaceEndAt(log[k].base)
    /\ (pc = "surf_header" /\ Len(log) >= 1) => pos = log[Len(log)].fin

\* Two surfaces were decoded, the second from where the first one's
\* vertices ended, which is not the first one's declared end.
C21_Witness ==
    /\ ret.kind = "Ok"
    /\ Len(log) = 2
    /\ log[2].base = log[1].fin
    /\ log[1].fin # SurfaceEndAt(log[1].base)
    /\ model.surfaces[1].vertices # <<>>

\* C22 -- to_pixel returns [x, y, z, n] as i32 values equal to the fields:
\* the signed channels within [-32768, 32767], the normal code unchanged
\* within [0, 65535] and never negative, and the low 16 bits of every
\* channel are the 16 bits stored.
C22_PixelKeepsFields ==
    pix.kind = "Pixel" =>
        /\ pix.pixel = <<pix.vert.x, pix.vert.y, pix.vert.z, pix.vert.n>>
        /\ \A i \in 1..3 : -32768 <= pix.pixel[i] /\ pix.pixel[i] <= 32767
        /\ 0 <= pix.pixel[4] /\ pix.pixel[4] <= 65535
        /\ pix.pixel[1] % 65536 = pix.vert.x % 65536
        /\ pix.pixel[2] % 65536 = pix.vert.y % 65536
        /\ pix.pixel[3] % 65536 = pix.vert.z % 65536
        /\ pix.pixel[4] % 65536 = pix.vert.n

\* A vertex with negative coordinates and a normal code of 0x8000 or more.
C22_Witness ==
    /\ pix.kind = "Pixel"
    /\ pix.vert.x < 0
    /\ pix.vert.z = -32768
    /\ pix.vert.n >= 32768
    /\ pix.pixel[4] = pix.vert.n
    /\ pix.pixel[1] < 0

\* The least n with n * w >= v, for w >= 1.
CeilDiv(v, w) == (v + w - 1) \div w

\* C23 -- degenerate frame count: for a surface with num_frames = 0, no
\* vertices and num_verts >= 1, make_animation with a width W >= 1 does not
\* return: the single-frame branch builds one frame block of zero pixels
\* (W * ceil(V / W) of them, at least one), the height is 0, and the length
\* assertion fails.
C23_NoFramesPanics ==
    (/\ animation.kind # "none"
     /\ surf.num_frames = 0 /\ surf.vertices.len = 0
     /\ surf.num_verts >= 1 /\ AnimW >= 1) =>
        /\ animation = Panicked
        /\ SingleBlock(AnimW * CeilDiv(surf.num_verts, AnimW))
              = [i \in 1..(16 * AnimW * CeilDiv(surf.num_verts, AnimW)) |-> 0]
        /\ AnimW * CeilDiv(surf.num_verts, AnimW) >= 1
        /\ ~LengthAsserted(SingleBlock(AnimW * CeilDiv(surf.num_verts, AnimW)),
                           AnimW, surf.num_frames * CeilDiv(surf.num_verts, AnimW))

\* The same by description, for vertex counts and widths small and large:
\* the grid has height 0 and at least one pixel per frame, and the call
\* panics.
C23_NoFramesPanicsLarge ==
    (surf.num_frames = 0 /\ surf.num_verts >= 1 /\ GridW >= 1) =>
        /\ grid.kind = "Grid" => grid.height = 0 /\ grid.pixels_per_frame >= 1
        /\ outline.kind # "Animation"

\* make_animation(Some(2)) of a surface declaring 3 vertices and no frame
\* has panicked.
C23_Witness ==
    /\ animation = Panicked
    /\ surf.num_frames = 0
    /\ surf.num_verts = 3
    /\ width = <<2>>

\* C24 as stated: every width Texture::try_from_md3 passes to
\* make_animation, and every width it uploads with, is at least 1, also
\* for a surface without vertices.
C24_AsStated ==
    /\ width # <<>> => width[1] >= 1
    /\ \A i \in 1..Len(neg.attempts) : neg.attempts[i].width >= 1

\* C24 -- widths of the negotiation: for a surface with num_verts >= 1
\* every width passed to make_animation and every upload width is at least
\* 1, whatever the uploads answer; for a surface with num_verts = 0 the
\* one call passes the width 0, make_animation returns an empty animation
\* and the one upload is of a texture of width 0 and height 0.
C24_WidthsOfNegotiation ==
    /\ (NegV >= 1 /\ width # <<>>) => width[1] >= 1
    /\ NegV >= 1 => \A i \in 1..Len(neg.attempts) : neg.attempts[i].width >= 1
    /\ (NegV = 0 /\ width # <<>>) => width = <<0>>
    /\ (NegV = 0 /\ outline.kind # "none") =>
          outline = [kind |-> "Animation", branch |-> outline.branch, pixels |-> 0]
    /\ (NegV = 0 /\ neg.attempts # <<>>) =>
          /\ neg.pc = "done"
          /\ Len(neg.attempts) = 1
          /\ neg.attempts[1].width = 0
          /\ neg.attempts[1].height = 0

\* A surface without vertices went through: the empty animation was
\* uploaded as a texture of width 0; and the other case, widths 9, 8.
C24_Witness ==
    /\ NegV = 0
    /\ surf.num_frames = 2
    /\ neg.result = "Ok"
    /\ neg.attempts[1].width = 0

C24_WitnessPositive ==
    /\ NegV = 9
    /\ Len(neg.attempts) = 2
    /\ neg.attempts[2].width = 8
    /\ neg.result = "Ok"

Decreasing(attempts) ==
    \A i \in 1..Len(attempts) : \A j \in (i + 1)..Len(attempts) :
        attempts[i].width > attempts[j].width

LastAttempt == neg.attempts[Len(neg.attempts)]

\* C26 -- only the too-large signal triggers a retry: an attempt of
\* Texture::try_from_md3 whose upload gives a GL error other than
\* INVALID_VALUE, or whose texture cannot be created, or that succeeds, is
\* the last one; the call returns that outcome with the width unchanged and
\* no further make_animation call, and on success the rows_per_frame and
\* the height are those of make_animation for the width of that attempt.
C26_OnlyTooBigRetries ==
    /\ \A i \in 1..Len(neg.attempts) :
          neg.attempts[i].outcome # "TooBig" =>
              /\ i = Len(neg.attempts)
              /\ neg.pc = "done"
              /\ neg.result = neg.attempts[i].outcome
    /\ \A i \in 1..(Len(neg.attempts) - 1) : neg.attempts[i].outcome = "TooBig"
    /\ neg.pc = "done" =>
          /\ neg.attempts # <<>>
          /\ neg.result = LastAttempt.outcome
          /\ width = <<LastAttempt.width>>
          /\ grid.kind = "Grid"
          /\ outline.kind = "Animation"
          /\ grid.rows_per_frame = RowsPerFrame(NegV, LastAttempt.width)
          /\ LastAttempt.height = surf.num_frames * grid.rows_per_frame
    /\ neg.result = "Ok" =>
          neg.rows_per_frame = RowsPerFrame(NegV, LastAttempt.width)
    /\ neg.result # "Ok" => neg.rows_per_frame = 0

\* A GL error other than INVALID_VALUE on the second attempt, with smaller
\* widths still untried: the call ended there, at width 8.
C26_Witness ==
    /\ NegV = 9
    /\ neg.pot = 4
    /\ Len(neg.attempts) = 2
    /\ neg.attempts[1].outcome = "TooBig"
    /\ neg.result = "GLError"
    /\ neg.two_power = 2
    /\ width = <<8>>

\* A texture that could not be created ended the call at the first width.
C26_WitnessMessage ==
    /\ NegV = 9
    /\ neg.pot = 4
    /\ neg.result = "Message"
    /\ width = <<9>>

FailedUploads(attempts) ==
    {i \in 1..Len(attempts) : attempts[i].outcome \in {"TooBig", "GLError"}}

Uploaded(attempts) ==
    {i \in 1..Len(attempts) : attempts[i].outcome = "Ok"}

\* C27 -- no texture handle leaks across the negotiation: when
\* Texture::try_from_md3 returns, the textures it created and has not
\* deleted number 1 if it returns the texture and 0 if it returns an error;
\* every attempt whose upload failed has deleted its texture before the
\* next attempt or the return, so between attempts none is alive.
C27_NoTextureLeak ==
    /\ neg.pc = "done" =>
          neg.created - neg.deleted = IF neg.result = "Ok" THEN 1 ELSE 0
    /\ neg.pc # "done" => neg.created = neg.deleted
    /\ neg.deleted = Cardinality(FailedUploads(neg.attempts))
    /\ neg.created = Cardinality(FailedUploads(neg.attempts))
                       + Cardinality(Uploaded(neg.attempts))

\* Three textures were created and deleted for widths found too large, and
\* the call returned the 'too big' error with none alive.
C27_Witness ==
    /\ NegV = 9
    /\ neg.pot = 3
    /\ neg.pc = "done"
    /\ neg.result = "TooBig"
    /\ neg.created = 3
    /\ neg.deleted = 3

\* Two failed attempts, then the texture that is returned.
C27_WitnessKept ==
    /\ neg.result = "Ok"
    /\ neg.created = 3
    /\ neg.deleted = 2

\* The reserved bytes of the file header and of a surface header at `base`.
HeaderReserved == {72, 73, 74, 75, 88, 89, 90, 91}

SurfaceReserved(base) == {base + 68, base + 69, base + 70, base + 71}

SurfaceBases ==
    {log[k].base : k \in 1..Len(log)}
        \cup (IF pc \in {"surf_shaders", "surf_triangles", "surf_uvs",
                         "surf_vertices", "surf_end"}
              THEN {soff.offset_ref} ELSE {})

\* C28 -- unread bytes do not influence decoding: read_md3 reads none of
\* the reserved bytes of the header (flags, secondary count) and of the
\* surface headers (flags), and a successful call nothing beyond the last
\* position it read from; and on a stream that differs from another one only in bytes that
\* read_md3 did not read there (reserved bytes, bytes between blocks,
\* bytes after the last read), it reads the same ranges and returns the
\* same outcome: the same error, or a model equal field by field.
C28_UnreadBytesDoNotMatter ==
    /\ \A p \in HeaderReserved : Unread(p)
    /\ \A base \in SurfaceBases : \A p \in SurfaceReserved(base) : Unread(p)
    /\ ret.kind = "Ok" => \A p \in hiRead..(flen - 1) : Unread(p)
    /\ (reopened = "altered" /\ pc = "done") =>
          /\ ret = prev.ret
          /\ touched = prev.touched

\* A file with unused bytes between the UVs and the vertices of its
\* surface and all unread bytes written differently (the reserved bytes of
\* both headers and the gap among them) was decoded to the same model.
C28_Witness ==
    /\ reopened = "altered"
    /\ pc = "done"
    /\ ret.kind = "Ok"
    /\ input \in {[d EXCEPT !.patch = input.patch] : d \in SurfaceGapInputs}
    /\ {72, 88, input.surfs[1].at + 68,
        input.surfs[1].at + input.surfs[1].oV - 1} \subseteq input.patch
    /\ Len(ret.model[1].surfaces) = 1

\* A rejected file: every byte after the identifier written differently,
\* and the same WrongId comes back.
C28_WitnessError ==
    /\ reopened = "altered"
    /\ pc = "done"
    /\ ret.kind = "WrongId"
    /\ Cardinality(input.patch) = flen - IntLen

\* What the viewer displays: the App fields a load sets, but for the message.
Displayed(a) ==
    <<a.model_data, a.models, a.frame_range, a.current_frame, a.anim_playing,
      a.distance, a.texture_cache>>

\* The step in which the file-dialog handler ends on a failure: of
\* File::open, or of read_md3.
OpenFailsStep == app.pc = "ui" /\ app'.pc = "ui" /\ app'.loads = app.loads + 1

ReadFailsStep == app.pc = "loading" /\ app'.pc = "ui" /\ ret.kind \in ErrorKinds

\* C29 -- a failed load leaves the viewer's model state untouched: when
\* File::open or read_md3 fails in the file-dialog handler, model_data,
\* models, frame_range, current_frame, anim_playing, the camera distance
\* and the texture cache keep the values they had when the file was
\* selected, and error_message is set to the text of that error; while
\* read_md3 runs none of the App's fields changes.
C29_FailedLoadKeepsModel ==
    [][/\ OpenFailsStep =>
            /\ Displayed(app') = Displayed(app)
            /\ app'.error_message = <<[what |-> "Error reading file",
                                       err |-> <<"io">>]>>
       /\ ReadFailsStep =>
            /\ Displayed(app') = Displayed(app)
            /\ app'.error_message = <<[what |-> "Error reading file",
                                       err |-> <<ret.kind, ret.val>>]>>
       /\ (app.pc = "loading" /\ app'.pc = "loading") => app' = app
       /\ (app.pc = "ui" /\ app'.pc = "loading") =>
            /\ Displayed(app') = Displayed(app)
            /\ app'.error_message = app.error_message]_vars

\* A model with two frames was loaded and moved to a later frame with the
\* animation playing; then a file that is not an MD3 was selected: the
\* model is still there, at that frame, with the message of the WrongId.
C29_Witness ==
    /\ app.pc = "ui"
    /\ app.loads = 2
    /\ app.attempt = "failed"
    /\ app.model_data # <<>>
    /\ Len(app.model_data[1].frames) = 2
    /\ app.models = <<1>>
    /\ app.current_frame = [floor |-> 0, ceil |-> 1]
    /\ app.anim_playing
    /\ app.error_message = <<[what |-> "Error reading file",
                              err |-> <<"WrongId", <<73, 68, 80, 52>>>>]>>

InBounds(m, frame) == \A i \in Lookups(m, frame) : i < Len(m.tags)

\* C30 -- tag lookups by the viewer are always in bounds: for the model a
\* load has put into model_data and every value current_frame takes (0
\* after the load, a value of the frame bar, a value of the playback),
\* every index tag_index + num_tags * floor(current_frame) and tag_index +
\* num_tags * ceil(current_frame), tag_index < num_tags, is below
\* tags.len(), so the drawing of the tags does not panic; also for models
\* whose header declares no frame and one or more tags.
C30_TagLookupsInBounds ==
    /\ app.model_data # <<>> => InBounds(app.model_data[1], app.current_frame)
    /\ app.pc # "crashed"
====
